---------------------------- MODULE Spec2Model ----------------------------
(***************************************************************************)
(* A model of the AI-Therapist backend's streaming bridge and of its four  *)
(* process-wide stores (api/utils.py, api/session_store.py, api/views.py,  *)
(* api/consumers.py).                                                      *)
(*                                                                         *)
(* Text is a sequence of one-character strings, so that strip(), lower(),  *)
(* split(' '), ''.join() and startswith() are computed, not assumed.       *)
(* time.time() is the variable `now`, in seconds; the clock advances in    *)
(* steps of TickStep seconds.                                              *)
(***************************************************************************)
EXTENDS Integers, Sequences, FiniteSets, TLC

VARIABLES
    now,        \* time.time(), whole seconds
    clients,    \* RateLimiter.clients: ip -> deque of timestamps
    admitted,   \* history: the <<ip, time>> of every is_allowed call that returned True
    cache,      \* ResponseCache.cache, in dict (insertion) order
    cacheHist,  \* history: per key the latest set(), and the keys evicted since
    messages,   \* ConversationStore._messages: session id -> deque of turns
    metrics,    \* MetricsTracker's counters and latency deque
    requests,   \* number of HTTP / WebSocket requests received so far
    ret,        \* the call just made and what it returned
    stream,     \* the WebSocket consumer's exchange in progress
    parked,     \* the exchange of the other connection of the event loop
    threads     \* the threads calling the stores concurrently, and their completed calls

vars == <<now, clients, admitted, cache, cacheHist, messages, metrics,
          requests, ret, stream, parked, threads>>

---------------------------------------------------------------------------
(* Bounds of the model.                                                    *)

\* The clock stops at MaxTime.
MaxTime == 80
\* The clock stops earlier where the response cache is exercised.
CacheMaxTime == 60
\* ... and where whole requests are handled.
PostMaxTime == 40
\* Seconds per clock step.
TickStep == 20
\* RateLimiter(calls_per_minute=...): utils.py:31, settings RATE_LIMIT_CALLS_PER_MINUTE.
calls_per_minute == 2
\* At most this many admissions are recorded in one run of the rate limiter.
MaxAdmitted == 4
\* ResponseCache(max_size=..., ttl_seconds=...): utils.py:138.
max_size == 2
cache_ttl_seconds == 40
\* ConversationStore(max_messages=..., ttl_seconds=...): session_store.py:12.
max_messages == 2
session_ttl_seconds == 40
\* At most this many requests are received in one run.
MaxRequests == 3
\* At most this many calls are made by the concurrent threads in one run.
MaxCalls == 3
\* At most this many messages are received on the WebSocket in one run.
MaxMessages == 1
\* The streaming responder yields at most this many fragments.
MaxFragments == 2

(* Program constants.                                                      *)

\* utils.py:40  window_start = now - 60
WINDOW_SECONDS == 60
\* utils.py:79  deque(maxlen=1000)
LATENCY_MAXLEN == 1000

---------------------------------------------------------------------------
(* Text.                                                                   *)

\* None, as a value comparable with text.
None == <<"None">>

\* str.lower() on the alphabet the model uses.
LowerChar(c) ==
    CASE c = "H" -> "h"
      [] c = "L" -> "l"
      [] c = "G" -> "g"
      [] c = "O" -> "o"
      [] c = "C" -> "c"
      [] c = "A" -> "a"
      [] OTHER -> c

Lower(s) == [i \in 1..Len(s) |-> LowerChar(s[i])]

IsSpace(c) == c = " "

RECURSIVE LStrip(_)
LStrip(s) == IF s # <<>> /\ IsSpace(Head(s)) THEN LStrip(Tail(s)) ELSE s

RECURSIVE RStrip(_)
RStrip(s) ==
    IF s # <<>> /\ IsSpace(s[Len(s)]) THEN RStrip(SubSeq(s, 1, Len(s) - 1)) ELSE s

\* str.strip()
StripNothing(s) == s

Strip(s) == RStrip(LStrip(s))

\* str.startswith(prefix)
StartsWith(s, prefix) ==
    Len(s) >= Len(prefix) /\ SubSeq(s, 1, Len(prefix)) = prefix

\* ''.join(parts)
RECURSIVE Join(_)
Join(parts) == IF parts = <<>> THEN <<>> ELSE Head(parts) \o Join(Tail(parts))

Range(f) == {f[i] : i \in DOMAIN f}

\* A dict with one more key; m[k] = v replaces the value of a present key.
DictSet(m, k, v) == [x \in DOMAIN m \cup {k} |-> IF x = k THEN v ELSE m[x]]

\* del m[k] for every k in ks
DictDel(m, ks) == [x \in DOMAIN m \ ks |-> m[x]]

EmptyDict == [x \in {} |-> 0]

\* deque(maxlen=n).append(x): a full deque drops its leftmost element.
DequeAppendUnbounded(q, x, maxlen) == Append(q, x)

DequeAppend(q, x, maxlen) ==
    IF maxlen = 0 THEN <<>>
    ELSE IF Len(q) >= maxlen THEN Append(Tail(q), x)
    ELSE Append(q, x)

TAG_GEMINI == <<"g", "e", "m", "i", "n", "i">>
TAG_LOCAL == <<"l", "o", "c", "a", "l">>
TAG_FALLBACK == <<"f", "a", "l", "l", "b", "a", "c", "k">>
TAG_DEFAULT == <<"d", "e", "f", "a", "u", "l", "t">>
CACHE_SUFFIX == <<"-", "c", "a", "c", "h", "e">>

---------------------------------------------------------------------------
(* RateLimiter (utils.py:25-54).                                           *)

ClientIps == {"ip1", "ip2"}

\* while deque and deque[0] < window_start: deque.popleft()
RECURSIVE DropOldInclusive(_, _)
DropOldInclusive(window, window_start) ==
    IF window # <<>> /\ Head(window) <= window_start
    THEN DropOldInclusive(Tail(window), window_start)
    ELSE window

RECURSIVE DropOld(_, _)
DropOld(window, window_start) ==
    IF window # <<>> /\ Head(window) < window_start
    THEN DropOld(Tail(window), window_start)
    ELSE window

UnderLimitLoose(window) == Len(window) <= calls_per_minute

\* if len(self.clients[client_ip]) < self.calls_per_minute
UnderLimit(window) == Len(window) < calls_per_minute

\* RateLimiter.is_allowed as a function of the limiter's state and the time:
\* the new state and the value returned.
RL_IsAllowed(cl, client_ip, t) ==
    LET window == IF client_ip \in DOMAIN cl THEN cl[client_ip] ELSE <<>>
        kept == DropOld(window, t - WINDOW_SECONDS)
        ok == UnderLimit(kept)
    IN  [clients |-> DictSet(cl, client_ip, IF ok THEN Append(kept, t) ELSE kept),
         allowed |-> ok]

---------------------------------------------------------------------------
(* ResponseCache (utils.py:132-170).  The dict is kept as the sequence of  *)
(* its entries in insertion order, the order min() scans them in.          *)

\* _make_key: the string that is hashed.  hash() is taken to be injective
\* on the strings of the model.
Cache_MakeKey(prompt, provider) ==
    LET provider_prefix == IF provider # <<>> THEN Strip(Lower(provider)) ELSE TAG_DEFAULT
    IN  provider_prefix \o <<":">> \o Strip(Lower(prompt))

\* The position of key in the dict, 0 when absent.
Cache_Index(c, key) ==
    IF \E i \in 1..Len(c) : c[i].key = key
    THEN CHOOSE i \in 1..Len(c) : c[i].key = key
    ELSE 0

SeqRemove(q, i) == SubSeq(q, 1, i - 1) \o SubSeq(q, i + 1, Len(q))

FreshLoose(age) == age <= cache_ttl_seconds

\* if time.time() - timestamp < self.ttl_seconds
Fresh(age) == age < cache_ttl_seconds

\* ResponseCache.get: the new cache and the value returned.
Cache_Get(c, prompt, provider, t) ==
    LET i == Cache_Index(c, Cache_MakeKey(prompt, provider))
    IN  IF i = 0 THEN [cache |-> c, value |-> None]
        ELSE IF Fresh(t - c[i].timestamp)
             THEN [cache |-> c, value |-> c[i].response]
             ELSE [cache |-> SeqRemove(c, i), value |-> None]

Cache_NewestIndex(c) ==
    CHOOSE i \in 1..Len(c) : \A j \in 1..Len(c) : c[i].timestamp >= c[j].timestamp

\* min(self.cache.keys(), key=lambda k: self.cache[k][1]): the first entry,
\* in dict order, whose timestamp is minimal.
Cache_OldestIndex(c) ==
    CHOOSE i \in 1..Len(c) :
        /\ \A j \in 1..Len(c) : c[i].timestamp <= c[j].timestamp
        /\ \A j \in 1..(i - 1) : c[j].timestamp > c[i].timestamp

IsFullLoose(c) == Len(c) > max_size

\* if len(self.cache) >= self.max_size
IsFull(c) == Len(c) >= max_size

Cache_SetNothing(c, prompt, response, provider, t) == [cache |-> c, evicted |-> None]

Cache_SetIfAbsent(c, prompt, response, provider, t) ==
    LET key == Cache_MakeKey(prompt, provider)
        evict == IsFull(c) /\ c # <<>>
        c1 == IF evict THEN SeqRemove(c, Cache_OldestIndex(c)) ELSE c
        entry == [key |-> key, response |-> response, timestamp |-> t]
    IN  [cache |-> IF Cache_Index(c1, key) = 0 THEN Append(c1, entry) ELSE c1,
         evicted |-> IF evict THEN c[Cache_OldestIndex(c)].key ELSE None]

Cache_SetEvictIfNew(c, prompt, response, provider, t) ==
    LET key == Cache_MakeKey(prompt, provider)
        evict == IsFull(c) /\ c # <<>> /\ Cache_Index(c, key) = 0
        c1 == IF evict THEN SeqRemove(c, Cache_OldestIndex(c)) ELSE c
        i == Cache_Index(c1, key)
        entry == [key |-> key, response |-> response, timestamp |-> t]
    IN  [cache |-> IF i = 0 THEN Append(c1, entry) ELSE [c1 EXCEPT ![i] = entry],
         evicted |-> IF evict THEN c[Cache_OldestIndex(c)].key ELSE None]

\* ResponseCache.set: the new cache and the key it evicted (None when none).
Cache_Set(c, prompt, response, provider, t) ==
    LET key == Cache_MakeKey(prompt, provider)
        evict == IsFull(c) /\ c # <<>>
        c1 == IF evict THEN SeqRemove(c, Cache_OldestIndex(c)) ELSE c
        i == Cache_Index(c1, key)
        entry == [key |-> key, response |-> response, timestamp |-> t]
    IN  [cache |-> IF i = 0 THEN Append(c1, entry) ELSE [c1 EXCEPT ![i] = entry],
         evicted |-> IF evict THEN c[Cache_OldestIndex(c)].key ELSE None]

\* The history of set() calls after one more: the latest set() of each key,
\* and the keys evicted since their latest set().
Hist_Set(h, prompt, response, provider, t, evicted) ==
    LET key == Cache_MakeKey(prompt, provider)
    IN  [last |-> DictSet(h.last, key, [response |-> response, timestamp |-> t]),
         evicted |-> (h.evicted \cup (IF evicted = None THEN {} ELSE {evicted})) \ {key}]

---------------------------------------------------------------------------
(* ConversationStore (session_store.py:7-36).                              *)

\* A session id JSON can carry that Python cannot hash (a list, an object):
\* `session_id not in self._messages` raises TypeError.
UNHASHABLE == "[unhashable]"

Hashable(session_id) == session_id # UNHASHABLE

\* msgs and now - msgs[-1][2] > self.ttl_seconds
Expired(msgs, t) == msgs # <<>> /\ t - msgs[Len(msgs)].timestamp > session_ttl_seconds

Store_PurgeNothing(m, t) == m

\* ConversationStore._purge_expired
Store_PurgeExpired(m, t) == DictDel(m, {sid \in DOMAIN m : Expired(m[sid], t)})

AppendTurnUnbounded(q, turn) == Append(q, turn)

\* deque(maxlen=self.max_messages).append(turn)
AppendTurn(q, turn) == DequeAppend(q, turn, max_messages)

\* ConversationStore.add, for a hashable session id: the new map.
Store_Add(m, session_id, role, content, t) ==
    LET m1 == Store_PurgeExpired(m, t)
        q == IF session_id \in DOMAIN m1 THEN m1[session_id] ELSE <<>>
        turn == [role |-> role, content |-> content, timestamp |-> t]
    IN  DictSet(m1, session_id, AppendTurn(q, turn))

Store_GetNoPurge(m, session_id, t) ==
    [messages |-> m,
     history |-> IF session_id \notin DOMAIN m THEN <<>>
                 ELSE [i \in 1..Len(m[session_id]) |->
                         [role |-> m[session_id][i].role,
                          content |-> m[session_id][i].content]]]

Store_GetTouching(m, session_id, t) ==
    LET m1 == Store_PurgeExpired(m, t)
        r == Store_GetNoPurge(m1, session_id, t)
    IN  [messages |-> IF session_id \notin DOMAIN m1 THEN m1
                      ELSE [m1 EXCEPT ![session_id] =
                              [i \in 1..Len(@) |-> [@[i] EXCEPT !.timestamp = t]]],
         history |-> r.history]

\* ConversationStore.get, for a hashable session id: the new map and the list returned.
Store_Get(m, session_id, t) ==
    LET m1 == Store_PurgeExpired(m, t)
    IN  [messages |-> m1,
         history |-> IF session_id \notin DOMAIN m1 THEN <<>>
                     ELSE [i \in 1..Len(m1[session_id]) |->
                             [role |-> m1[session_id][i].role,
                              content |-> m1[session_id][i].content]]]

---------------------------------------------------------------------------
(* MetricsTracker (utils.py:67-121).                                       *)

Metrics_Init ==
    [total_requests |-> 0, gemini_requests |-> 0, local_requests |-> 0,
     fallback_requests |-> 0, rate_limited_requests |-> 0, latencies |-> <<>>]

Metrics_RecordRequestExact(mt, latency_ms, source) ==
    LET counted == [mt EXCEPT !.total_requests = @ + 1,
                              !.latencies = DequeAppend(@, latency_ms, LATENCY_MAXLEN)]
    IN  IF source = TAG_GEMINI THEN [counted EXCEPT !.gemini_requests = @ + 1]
        ELSE IF source = TAG_LOCAL THEN [counted EXCEPT !.local_requests = @ + 1]
        ELSE [counted EXCEPT !.fallback_requests = @ + 1]

Metrics_RecordRequestUncounted(mt, latency_ms, source) ==
    LET counted == [mt EXCEPT !.latencies = DequeAppend(@, latency_ms, LATENCY_MAXLEN)]
    IN  IF StartsWith(source, TAG_GEMINI) THEN [counted EXCEPT !.gemini_requests = @ + 1]
        ELSE IF StartsWith(source, TAG_LOCAL) THEN [counted EXCEPT !.local_requests = @ + 1]
        ELSE [counted EXCEPT !.fallback_requests = @ + 1]

\* MetricsTracker.record_request
Metrics_RecordRequest(mt, latency_ms, source) ==
    LET counted == [mt EXCEPT !.total_requests = @ + 1,
                              !.latencies = DequeAppend(@, latency_ms, LATENCY_MAXLEN)]
    IN  IF StartsWith(source, TAG_GEMINI) THEN [counted EXCEPT !.gemini_requests = @ + 1]
        ELSE IF StartsWith(source, TAG_LOCAL) THEN [counted EXCEPT !.local_requests = @ + 1]
        ELSE [counted EXCEPT !.fallback_requests = @ + 1]

Metrics_RecordRateLimitAsRequest(mt) ==
    [mt EXCEPT !.rate_limited_requests = @ + 1, !.total_requests = @ + 1]

\* MetricsTracker.record_rate_limit
Metrics_RecordRateLimit(mt) == [mt EXCEPT !.rate_limited_requests = @ + 1]

\* sorted(latencies)[index], index 0-based: the value with at most index
\* samples below it and more than index samples not above it
SortedAt(latencies, index) ==
    CHOOSE v \in Range(latencies) :
        /\ Cardinality({i \in DOMAIN latencies : latencies[i] < v}) <= index
        /\ index < Cardinality({i \in DOMAIN latencies : latencies[i] <= v})

Min(a, b) == IF a <= b THEN a ELSE b

Metrics_MedianIndexLower(n) == (n - 1) \div 2

\* len(sorted_latencies) // 2, a 0-based index
Metrics_MedianIndex(n) == n \div 2

Metrics_P95IndexLast(n) == n - 1

\* p95_idx = int(len(sorted_latencies) * 0.95), a 0-based index
Metrics_P95Index(n) == (n * 95) \div 100

\* MetricsTracker.get_metrics
Metrics_GetMetrics(mt) ==
    LET latencies == mt.latencies
        n == Len(latencies)
        median == IF latencies # <<>>
                  THEN SortedAt(latencies, Metrics_MedianIndex(n)) ELSE 0
        p95 == IF latencies # <<>>
               THEN SortedAt(latencies, Min(Metrics_P95Index(n), n - 1)) ELSE 0
    IN  [total_requests |-> mt.total_requests,
         gemini_requests |-> mt.gemini_requests,
         local_requests |-> mt.local_requests,
         fallback_requests |-> mt.fallback_requests,
         rate_limited_requests |-> mt.rate_limited_requests,
         latency_median_ms |-> median,
         latency_p95_ms |-> p95]

---------------------------------------------------------------------------
(* The state after the module-level constructors have run                  *)
(* (utils.py:58, 125, 174; session_store.py:39), one WebSocket accepted. *)

\* The consumer between two messages: nothing sent, no producer thread.
\*   pc         where receive() stands: "idle", "consume" (the while loop at
\*              await queue.get()), "join" (await producer_task), "fallback"
\*   sent       the events sent for the message being (or last) handled
\*   ppc        the producer thread: "none", "running", "finished", "raised"
\*   emitted    history: the fragments the generator has yielded
\*   scheduled  the queue.put coroutines handed to the loop, not yet run
\*   queue      the asyncio.Queue
\*   collected  the list `collected`
\*   response, tokens   the fallback text and its tokens still to send
\*   closed     the client has disconnected
StreamIdle ==
    [pc |-> "idle", user_text |-> <<>>, provider |-> <<>>, session_id |-> "",
     sent |-> <<>>, ppc |-> "none", emitted |-> <<>>, scheduled |-> <<>>,
     queue |-> <<>>, collected |-> <<>>, response |-> <<>>, tokens |-> <<>>,
     closed |-> FALSE]

\* The threads that call the stores.
Threads == {"t1", "t2"}

\* No thread is inside a store, no call has been completed.
ThreadsIdle == [of |-> [t \in Threads |-> [pc |-> "idle"]], history |-> <<>>]

Init ==
    /\ now = 0
    /\ clients = EmptyDict
    /\ admitted = <<>>
    /\ cache = <<>>
    /\ cacheHist = [last |-> EmptyDict, evicted |-> {}]
    /\ messages = EmptyDict
    /\ metrics = Metrics_Init
    /\ requests = 0
    /\ ret = [op |-> "init"]
    /\ stream = StreamIdle
    /\ parked = StreamIdle
    /\ threads = ThreadsIdle

\* Time passes, up to the instant `limit`.
TickTo(limit) ==
    /\ now + TickStep <= limit
    /\ now' = now + TickStep
    /\ ret' = [op |-> "tick"]
    /\ UNCHANGED <<clients, admitted, cache, cacheHist, messages, metrics, requests,
                   stream, parked, threads>>

---------------------------------------------------------------------------
(* The rate limiter called directly.                                       *)

IsAllowed(client_ip) ==
    LET r == RL_IsAllowed(clients, client_ip, now)
    IN  /\ Len(admitted) < MaxAdmitted
        /\ clients' = r.clients
        /\ admitted' = IF r.allowed
                       THEN Append(admitted, [client_ip |-> client_ip, time |-> now])
                       ELSE admitted
        /\ ret' = [op |-> "is_allowed", client_ip |-> client_ip, allowed |-> r.allowed]
        /\ UNCHANGED <<now, cache, cacheHist, messages, metrics, requests,
                       stream, parked, threads>>

Tick == TickTo(MaxTime)

NextRateLimiter == Tick \/ \E client_ip \in ClientIps : IsAllowed(client_ip)

SpecRateLimiter == Init /\ [][NextRateLimiter]_vars

\* The admissions of client_ip with a timestamp in [lo, hi].
AdmittedIn(client_ip, lo, hi) ==
    {i \in DOMAIN admitted :
        admitted[i].client_ip = client_ip /\ lo <= admitted[i].time /\ admitted[i].time <= hi}

\* C1: for every client and every instant T, at most calls_per_minute calls of
\* is_allowed returned True with a timestamp in the trailing window [T - 60, T].
C1_AtMostLimitPerWindow ==
    \A client_ip \in ClientIps, T \in 0..MaxTime :
        Cardinality(AdmittedIn(client_ip, T - WINDOW_SECONDS, T)) <= calls_per_minute

\* A client admitted again after its window, once full, has slid: it has more
\* admissions than the limit in all, and exactly the limit in the window ending now.
C1_Witness ==
    /\ ret.op = "is_allowed"
    /\ ret.allowed
    /\ Cardinality(AdmittedIn(ret.client_ip, 0, now)) > calls_per_minute
    /\ Cardinality(AdmittedIn(ret.client_ip, now - WINDOW_SECONDS, now)) = calls_per_minute

\* the timestamps of window that are not older than window_start
NotOlder(window, window_start) ==
    SelectSeq(window, LAMBDA ts : ts >= window_start)

WindowOf(cl, client_ip) == IF client_ip \in DOMAIN cl THEN cl[client_ip] ELSE <<>>

\* C27: is_allowed first drops from the client's window every timestamp
\* older than now - 60 s, then admits and appends now iff the remaining
\* count is below calls_per_minute; a denied call appends nothing: the
\* window is no longer than before, and at every later time it holds the
\* same timestamps of the last 60 s as if the call had not been made; the
\* windows of the other clients are untouched.
C27_TrimThenAdmit ==
    [][ret'.op = "is_allowed" =>
        LET client_ip == ret'.client_ip
            before == WindowOf(clients, client_ip)
            remaining == NotOlder(before, now - WINDOW_SECONDS)
        IN  /\ ret'.allowed <=> Len(remaining) < calls_per_minute
            /\ clients'[client_ip] =
                  IF ret'.allowed THEN Append(remaining, now) ELSE remaining
            /\ \A other \in ClientIps \ {client_ip} :
                  WindowOf(clients', other) = WindowOf(clients, other)
            /\ ~ret'.allowed =>
                  /\ Len(clients'[client_ip]) <= Len(before)
                  /\ \A t \in now..(MaxTime + WINDOW_SECONDS) :
                        NotOlder(clients'[client_ip], t - WINDOW_SECONDS)
                            = NotOlder(before, t - WINDOW_SECONDS)]_vars

\* a call was denied while the oldest timestamp of the full window is
\* exactly 60 s old: it was not dropped
C27_Witness ==
    /\ ret.op = "is_allowed"
    /\ ~ret.allowed
    /\ Len(clients[ret.client_ip]) = calls_per_minute
    /\ Head(clients[ret.client_ip]) = now - WINDOW_SECONDS

---------------------------------------------------------------------------
(* The conversation store called directly.                                 *)

SessionIds == {"s1", "s2"}
Roles == {"user", "assistant"}
StoreContents == {<<"h">>}

\* The number of turns the store holds for session_id.
Held(m, session_id) == IF session_id \in DOMAIN m THEN Len(m[session_id]) ELSE 0

StoreAdd(session_id, role, content) ==
    /\ messages' = Store_Add(messages, session_id, role, content, now)
    /\ ret' = [op |-> "add", session_id |-> session_id,
               turn |-> [role |-> role, content |-> content, timestamp |-> now],
               held |-> Held(messages, session_id),
               purged |-> DOMAIN messages \ DOMAIN Store_PurgeExpired(messages, now)]
    /\ UNCHANGED <<now, clients, admitted, cache, cacheHist, metrics, requests,
                   stream, parked, threads>>

StoreGet(session_id) ==
    LET r == Store_Get(messages, session_id, now)
    IN  /\ messages' = r.messages
        /\ ret' = [op |-> "get", session_id |-> session_id, history |-> r.history,
                   purged |-> DOMAIN messages \ DOMAIN r.messages]
        /\ UNCHANGED <<now, clients, admitted, cache, cacheHist, metrics, requests,
                       stream, parked, threads>>

NextStore ==
    \/ Tick
    \/ \E session_id \in SessionIds, role \in Roles, content \in StoreContents :
          StoreAdd(session_id, role, content)
    \/ \E session_id \in SessionIds : StoreGet(session_id)

SpecStore == Init /\ [][NextStore]_vars

\* No session holds more than max_messages turns.
HistoryBounded == \A sid \in DOMAIN messages : Len(messages[sid]) <= max_messages

\* The step is an add() to a session that held max_messages turns; with
\* unexpiredOnly, one whose latest turn is no older than ttl_seconds.
AddToFull(unexpiredOnly) ==
    /\ ret'.op = "add"
    /\ Held(messages, ret'.session_id) = max_messages
    /\ unexpiredOnly => ~Expired(messages[ret'.session_id], now)

\* The add() dropped exactly the oldest turn and put the new turn last.
OldestDropped ==
    messages'[ret'.session_id] = Append(Tail(messages[ret'.session_id]), ret'.turn)

\* C6 as claimed: every session holds at most max_messages turns, and an add to
\* a session that holds max_messages turns drops exactly the oldest turn, keeps
\* the others in order and puts the new turn last.
C6_AsClaimed == [](HistoryBounded) /\ [][AddToFull(FALSE) => OldestDropped]_vars

\* C6 amended: the same, for an add to a session that holds max_messages turns
\* and has not expired (an expired session is purged by the add and starts over).
C6_RingBuffer == [](HistoryBounded) /\ [][AddToFull(TRUE) => OldestDropped]_vars

\* An add has just been made to a full, unexpired session, which is full still.
C6_Witness ==
    /\ ret.op = "add"
    /\ ret.held = max_messages
    /\ ret.session_id \notin ret.purged
    /\ Len(messages[ret.session_id]) = max_messages
    /\ messages[ret.session_id][Len(messages[ret.session_id])] = ret.turn

\* C7: a session whose latest turn is older than ttl_seconds is removed by the
\* next add or get, whatever session that call names: it is no key of the map,
\* a get of it returns the empty list, and an add to it leaves only the new turn.
C7_ExpiredRemoved ==
    [][ret'.op \in {"add", "get"} =>
        \A sid \in DOMAIN messages :
            Expired(messages[sid], now) =>
                IF ret'.op = "add" /\ ret'.session_id = sid
                THEN messages'[sid] = <<ret'.turn>>
                ELSE /\ sid \notin DOMAIN messages'
                     /\ (ret'.session_id = sid => ret'.history = <<>>)]_vars

\* An add to an expired session has purged it and another expired session.
C7_Witness ==
    /\ ret.op = "add"
    /\ ret.session_id \in ret.purged
    /\ Cardinality(ret.purged) = 2
    /\ messages[ret.session_id] = <<ret.turn>>

\* C21: a get of a session id that the store does not hold (never written, or
\* purged before) or that this get purges returns the empty list, and leaves
\* no session under that id behind.
C21_UnknownIsEmpty ==
    [][(ret'.op = "get" /\ (ret'.session_id \notin DOMAIN messages
                            \/ Expired(messages[ret'.session_id], now))) =>
        /\ ret'.history = <<>>
        /\ ret'.session_id \notin DOMAIN messages']_vars

\* A get has just purged the session it asked for and returned the empty list.
C21_Witness ==
    /\ ret.op = "get"
    /\ ret.history = <<>>
    /\ ret.session_id \in ret.purged
    /\ ret.session_id \notin DOMAIN messages

\* C37: get changes nothing except removing expired sessions: every
\* session that is not expired keeps its turns and their timestamps, no
\* session appears, and none that is left is expired; so a read does not
\* extend a session's lifetime, which runs from its last add.
C37_GetOnlyPurges ==
    [][ret'.op = "get" =>
        /\ DOMAIN messages' \subseteq DOMAIN messages
        /\ \A sid \in DOMAIN messages :
              IF Expired(messages[sid], now)
              THEN sid \notin DOMAIN messages'
              ELSE sid \in DOMAIN messages' /\ messages'[sid] = messages[sid]]_vars

\* a session was read after its last add: the read returned its turns,
\* left the timestamp of the add, and removed another, expired session
C37_Witness ==
    /\ ret.op = "get"
    /\ ret.history # <<>>
    /\ ret.purged # {}
    /\ ret.session_id \in DOMAIN messages
    /\ messages[ret.session_id][Len(messages[ret.session_id])].timestamp < now

---------------------------------------------------------------------------
(* get_llm_response (utils.py:191-216): the cache in front of a responder. *)

\* A JSON value that is not a string (a number, a list, null where a string
\* is read): its .strip() or .lower() raises AttributeError.
NOT_A_STRING == <<"[not a string]">>

\* settings.DEFAULT_LLM_PROVIDER
DEFAULT_LLM_PROVIDER == TAG_GEMINI

\* normalize_provider, for a string (or empty) provider.
NormalizeProvider(provider) ==
    LET provider_normalized == Lower(IF provider # <<>> THEN provider ELSE DEFAULT_LLM_PROVIDER)
    IN  IF provider_normalized \notin {TAG_GEMINI, TAG_LOCAL} THEN TAG_GEMINI
        ELSE provider_normalized

\* What a responder call (get_gemini_response, get_local_response) can do:
\* return a stripped text, which may be empty, or raise.
ResponseTexts == {<<"o", "k">>, <<>>}
Outcomes == [kind : {"text"}, text : ResponseTexts] \cup {[kind |-> "raise"]}

\* `if cached:`  None and the empty string are both false.
Truthy(text) == text # None /\ text # <<>>

\* get_llm_response called at t0 with a responder that does `outcome` and
\* returns at t1: the cache and its history afterwards, what the lookup saw,
\* whether the responder was invoked, and the (text, source) returned or the
\* exception raised.
GetLlmResponse(c, h, user_text, provider_in, outcome, t0, t1) ==
    IF provider_in = NOT_A_STRING
    THEN [cache |-> c, hist |-> h,
          out |-> [raised |-> TRUE, invoked |-> FALSE, looked |-> FALSE]]
    ELSE
    LET provider == NormalizeProvider(provider_in)
        got == Cache_Get(c, user_text, provider, t0)
        lookup == [key |-> Cache_MakeKey(user_text, provider), value |-> got.value,
                   time |-> t0, deleted |-> Len(got.cache) < Len(c)]
        put == Cache_Set(got.cache, user_text, outcome.text, provider, t1)
    IN  IF Truthy(got.value)
        THEN [cache |-> got.cache, hist |-> h,
              out |-> [raised |-> FALSE, invoked |-> FALSE, looked |-> TRUE, provider |-> provider,
                       lookup |-> lookup,
                       text |-> got.value, source |-> provider \o CACHE_SUFFIX]]
        ELSE IF outcome.kind = "raise"
        THEN [cache |-> got.cache, hist |-> h,
              out |-> [raised |-> TRUE, invoked |-> TRUE, looked |-> TRUE, provider |-> provider,
                       lookup |-> lookup]]
        ELSE [cache |-> put.cache,
              hist |-> Hist_Set(h, user_text, outcome.text, provider, t1, put.evicted),
              out |-> [raised |-> FALSE, invoked |-> TRUE, looked |-> TRUE, provider |-> provider,
                       lookup |-> lookup,
                       text |-> outcome.text, source |-> provider]]

\* The instants a call begun now can return at.
ReturnTimes(limit) == {t \in {now, now + TickStep} : t <= limit}

---------------------------------------------------------------------------
(* The response cache called directly, and through get_llm_response.       *)

\* Three keys: default:h and g:h for the direct calls, local:h through
\* get_llm_response.
CachePrompts == {<<"h">>, <<" ", "H">>}
CacheProviders == {<<>>, <<"G", " ">>}
CacheResponses == {<<"o", "k">>, <<"n", "o">>}
LlmProviders == {<<"L", "O", "C", "A", "L">>, NOT_A_STRING}

CacheGet(prompt, provider) ==
    LET r == Cache_Get(cache, prompt, provider, now)
    IN  /\ cache' = r.cache
        /\ ret' = [op |-> "cache_get", looked |-> TRUE,
                   lookup |-> [key |-> Cache_MakeKey(prompt, provider), value |-> r.value,
                               time |-> now, deleted |-> Len(r.cache) < Len(cache)]]
        /\ UNCHANGED <<now, clients, admitted, cacheHist, messages, metrics, requests,
                       stream, parked, threads>>

CacheSet(prompt, response, provider) ==
    LET r == Cache_Set(cache, prompt, response, provider, now)
    IN  /\ cache' = r.cache
        /\ cacheHist' = Hist_Set(cacheHist, prompt, response, provider, now, r.evicted)
        /\ ret' = [op |-> "cache_set", looked |-> FALSE,
                   key |-> Cache_MakeKey(prompt, provider),
                   response |-> response, evicted |-> r.evicted]
        /\ UNCHANGED <<now, clients, admitted, messages, metrics, requests,
                       stream, parked, threads>>

LlmResponse(user_text, provider, outcome, t1) ==
    LET r == GetLlmResponse(cache, cacheHist, user_text, provider, outcome, now, t1)
    IN  /\ now' = t1
        /\ cache' = r.cache
        /\ cacheHist' = r.hist
        /\ ret' = [op |-> "get_llm_response"] @@ r.out
        /\ UNCHANGED <<clients, admitted, messages, metrics, requests,
                       stream, parked, threads>>

CacheTick == TickTo(CacheMaxTime)

NextCache ==
    \/ CacheTick
    \/ \E prompt \in CachePrompts, provider \in CacheProviders : CacheGet(prompt, provider)
    \/ \E prompt \in CachePrompts, provider \in CacheProviders,
          response \in CacheResponses : CacheSet(prompt, response, provider)
    \/ \E user_text \in {Strip(p) : p \in CachePrompts}, provider \in LlmProviders,
          outcome \in Outcomes, t1 \in ReturnTimes(CacheMaxTime) :
          LlmResponse(user_text, provider, outcome, t1)

SpecCache == Init /\ [][NextCache]_vars

\* C8: the cache never holds more than max_size entries.
C8_CacheBounded == Len(cache) <= max_size

\* A set() on a full cache has evicted an entry and left the cache full.
C8_Witness ==
    /\ ret.op = "cache_set"
    /\ ret.evicted # None
    /\ Len(cache) = max_size

\* The step made a cache lookup: a get(), or the one in get_llm_response.
Looked == ret'.op \in {"cache_get", "get_llm_response"} /\ ret'.looked

\* Before the step, key had been set, and its latest set() was made less than
\* ttl_seconds before t / at least ttl_seconds before t.
SetWithinTtl(key, t) ==
    key \in DOMAIN cacheHist.last /\ t - cacheHist.last[key].timestamp < cache_ttl_seconds
SetBeyondTtl(key, t) ==
    key \in DOMAIN cacheHist.last /\ t - cacheHist.last[key].timestamp >= cache_ttl_seconds

\* After the step the cache holds, for key, `text` stored at the step's end.
HoldsFresh(key, text) ==
    /\ Cache_Index(cache', key) # 0
    /\ cache'[Cache_Index(cache', key)].response = text
    /\ cache'[Cache_Index(cache', key)].timestamp = now'

\* A lookup of an entry set at least ttl_seconds ago misses and deletes it.
ExpiredDeletedOnRead ==
    SetBeyondTtl(ret'.lookup.key, ret'.lookup.time) =>
        /\ ret'.lookup.value = None
        /\ ret'.op = "cache_get" => Cache_Index(cache', ret'.lookup.key) = 0

\* C9 as claimed: a get made less than ttl_seconds after the set returns the
\* response that was set; a get made later misses and deletes the entry; and
\* get_llm_response, when it meets the expired entry, misses that once: it
\* leaves a freshly stored response in the cache for the requests that follow.
C9_AsClaimed ==
    [][Looked =>
        /\ SetWithinTtl(ret'.lookup.key, ret'.lookup.time) =>
              ret'.lookup.value = cacheHist.last[ret'.lookup.key].response
        /\ ExpiredDeletedOnRead
        /\ (ret'.op = "get_llm_response" /\ SetBeyondTtl(ret'.lookup.key, ret'.lookup.time)) =>
              (~ret'.raised /\ HoldsFresh(ret'.lookup.key, ret'.text))]_vars

\* C9 amended: a get made less than ttl_seconds after the latest set of its key
\* returns that set's response, unless a set made with the cache full has
\* evicted the entry since, and then it misses; a get made later misses and
\* deletes the entry; get_llm_response, on a miss, stores what its responder
\* returns (stamped with the time the responder returned) and stores nothing
\* when the responder raises.
C9_CacheContract ==
    [][Looked =>
        /\ SetWithinTtl(ret'.lookup.key, ret'.lookup.time) =>
              ret'.lookup.value =
                  IF ret'.lookup.key \in cacheHist.evicted THEN None
                  ELSE cacheHist.last[ret'.lookup.key].response
        /\ ExpiredDeletedOnRead
        /\ ret'.lookup.key \notin DOMAIN cacheHist.last => ret'.lookup.value = None
        /\ (ret'.op = "get_llm_response" /\ ~Truthy(ret'.lookup.value)) =>
              IF ret'.raised
              THEN Range(cache') \subseteq Range(cache)
              ELSE HoldsFresh(ret'.lookup.key, ret'.text)]_vars

\* get_llm_response has met an expired entry, deleted it, and stored the text
\* its responder returned.
C9_Witness ==
    /\ ret.op = "get_llm_response"
    /\ ret.looked
    /\ ret.lookup.deleted
    /\ ~ret.raised
    /\ Truthy(ret.text)
    /\ Cache_Index(cache, ret.lookup.key) # 0
    /\ cache[Cache_Index(cache, ret.lookup.key)].response = ret.text

\* C28: a set() called while the cache holds max_size entries removes an
\* entry whose timestamp is minimal over the whole cache and no other, and
\* stores its own entry with the time of the call; get() changes no
\* timestamp: every entry it leaves is an entry that was there, as it was.
C28_EvictsOldestInserted ==
    [][/\ (ret'.op = "cache_set" /\ Len(cache) = max_size) =>
            \E i \in 1..Len(cache) :
                /\ cache[i].key = ret'.evicted
                /\ \A j \in 1..Len(cache) : cache[i].timestamp <= cache[j].timestamp
                /\ \A j \in 1..Len(cache) :
                      (j # i /\ cache[j].key # ret'.key) => cache[j] \in Range(cache')
                /\ \A e \in Range(cache') :
                      \/ e \in Range(cache) /\ e # cache[i]
                      \/ e = [key |-> ret'.key, response |-> ret'.response,
                              timestamp |-> now]
       /\ ret'.op = "cache_get" => Range(cache') \subseteq Range(cache)]_vars

\* a set() into the full cache evicted another key, whose entry had been
\* set before every entry that is left
C28_Witness ==
    /\ ret.op = "cache_set"
    /\ ret.evicted # None
    /\ ret.evicted # ret.key
    /\ Len(cache) = max_size
    /\ \A i \in 1..Len(cache) :
          cacheHist.last[ret.evicted].timestamp < cache[i].timestamp

CacheKeys(c) == {c[i].key : i \in 1..Len(c)}

\* C38: a set() of a key the cache already holds, called while the cache
\* holds max_size entries, still evicts an entry of minimal timestamp
\* before it overwrites: when that entry belongs to another key, that key
\* is lost and the cache is left with max_size - 1 entries; when it is the
\* entry of the key itself, the cache keeps max_size entries.
C38_OverwriteStillEvicts ==
    [][(ret'.op = "cache_set" /\ Len(cache) = max_size
            /\ ret'.key \in CacheKeys(cache)) =>
        /\ ret'.evicted \in CacheKeys(cache)
        /\ \A j \in 1..Len(cache) :
              cache[Cache_Index(cache, ret'.evicted)].timestamp <= cache[j].timestamp
        /\ ret'.key \in CacheKeys(cache')
        /\ cache'[Cache_Index(cache', ret'.key)] =
              [key |-> ret'.key, response |-> ret'.response, timestamp |-> now]
        /\ IF ret'.evicted # ret'.key
           THEN /\ ret'.evicted \notin CacheKeys(cache')
                /\ Len(cache') = max_size - 1
           ELSE Len(cache') = max_size]_vars

\* a key of the full cache was set again and the entry of another key was
\* evicted: the cache is one entry short of max_size
C38_Witness ==
    /\ ret.op = "cache_set"
    /\ ret.evicted # None
    /\ ret.evicted # ret.key
    /\ ret.evicted \notin CacheKeys(cache)
    /\ ret.key \in CacheKeys(cache)
    /\ Len(cache) = max_size - 1

---------------------------------------------------------------------------
(* The fallback responder (utils.py:408-453).  The templates are stood for *)
(* by short texts, one or two per list.                                    *)

FALLBACK_RESPONSES == {<<"I", " ", "h", "e", "a", "r", " ", "y", "o", "u">>}
GREETING_RESPONSES == {<<"H", "i">>}
ACKNOWLEDGMENT_RESPONSES == {<<"I", " ", "s", "e", "e">>, <<"O", "k", "a", "y">>}

\* greetings = ['hello', 'hi', 'hey', ...], the one the model's alphabet spells.
Greetings == {<<"h", "i">>}

\* needle in haystack
Contains(haystack, needle) ==
    \E i \in 1..(Len(haystack) - Len(needle) + 1) :
        SubSeq(haystack, i, i + Len(needle) - 1) = needle

\* len(text.split()): the number of maximal runs of non-space characters.
WordCount(text) ==
    Cardinality({i \in 1..Len(text) :
        ~IsSpace(text[i]) /\ (i = 1 \/ IsSpace(text[i - 1]))})

\* get_fallback_response: the texts random.choice can return.
FallbackResponses(user_text) ==
    IF \E g \in Greetings : Contains(Strip(Lower(user_text)), g) THEN GREETING_RESPONSES
    ELSE IF WordCount(user_text) <= 3 THEN ACKNOWLEDGMENT_RESPONSES
    ELSE FALLBACK_RESPONSES

---------------------------------------------------------------------------
(* DialogueView.post and SessionHistoryView.get (views.py:64-146).         *)

\* uuid.uuid4().hex: an id no other request has.
Uuid(n) == "uuid" \o ToString(n)

\* A missing or empty session_id.
NO_SESSION == ""

\* request.data.get('session_id') or uuid.uuid4().hex
SessionIdOf(session_in, n) == IF session_in = NO_SESSION THEN Uuid(n) ELSE session_in

UserTextUnstripped(text_in) == text_in

\* request.data.get('text', '').strip()
UserText(text_in) == Strip(text_in)

PostTexts == {<<>>, <<" ">>, <<" ", "H">>, NOT_A_STRING}
PostClientIps == {"ip1"}
PostProviders == {<<>>, <<"L", "O", "C", "A", "L">>}
PostSessions == {NO_SESSION, "s1", UNHASHABLE}

Store_AddPairSwapped(m, session_id, user_text, response_text, t) ==
    IF Hashable(session_id)
    THEN Store_Add(Store_Add(m, session_id, "assistant", response_text, t),
                   session_id, "user", user_text, t)
    ELSE Store_PurgeExpired(m, t)

\* The two conversation_store.add calls of one exchange, at time t.
Store_AddPair(m, session_id, user_text, response_text, t) ==
    IF Hashable(session_id)
    THEN Store_Add(Store_Add(m, session_id, "user", user_text, t),
                   session_id, "assistant", response_text, t)
    ELSE Store_PurgeExpired(m, t)

\* The record of a call: the text it carried; no lookup made, no responder
\* invoked, unless the handler gets that far.
PostCall(text_in, client_ip) ==
    [op |-> "post", text_in |-> text_in, client_ip |-> client_ip,
     looked |-> FALSE, invoked |-> FALSE]

\* The admitted part of DialogueView.post (lines 90-115), with the
\* responder's behaviour `outcome`, the time t1 at which it returns, and the
\* template `canned` that random.choice picks if the fallback is used.
PostAdmitted(call, user_text, provider_in, session_id, client_ip, outcome, canned, t1) ==
    LET llm == GetLlmResponse(cache, cacheHist, user_text, provider_in, outcome, now, t1)
        response_text == IF llm.out.raised THEN canned ELSE llm.out.text
        source == IF llm.out.raised THEN TAG_FALLBACK ELSE llm.out.source
        latency_ms == (t1 - now) * 1000
    IN  /\ now' = t1
        /\ cache' = llm.cache
        /\ cacheHist' = llm.hist
        /\ metrics' = Metrics_RecordRequest(metrics, latency_ms, source)
        /\ messages' = Store_AddPair(messages, session_id, user_text, response_text, t1)
        /\ ret' = [status |-> IF Hashable(session_id) THEN 200 ELSE 500,
                   response |-> response_text, source |-> source,
                   latency_ms |-> latency_ms, session_id |-> session_id]
                  @@ llm.out @@ call

\* Whether get_llm_response, called now, answers from the cache.
CacheHit(user_text, provider_in) ==
    /\ provider_in # NOT_A_STRING
    /\ Truthy(Cache_Get(cache, user_text, NormalizeProvider(provider_in), now).value)

\* DialogueView.post
Post(text_in, provider_in, session_in, client_ip) ==
    LET call == PostCall(text_in, client_ip)
        user_text == UserText(text_in)
        session_id == SessionIdOf(session_in, requests + 1)
        rl == RL_IsAllowed(clients, client_ip, now)
        unchanged == UNCHANGED <<now, clients, admitted, cache, cacheHist, messages, metrics>>
    IN  /\ requests < MaxRequests
        /\ requests' = requests + 1
        /\ UNCHANGED <<stream, parked, threads>>
        /\ IF text_in = NOT_A_STRING
           THEN \* line 69: AttributeError, not caught: HTTP 500
                ret' = call @@ [status |-> 500] /\ unchanged
           ELSE IF user_text = <<>>
           THEN ret' = call @@ [status |-> 400] /\ unchanged
           ELSE IF ~rl.allowed
           THEN /\ clients' = rl.clients
                /\ metrics' = Metrics_RecordRateLimit(metrics)
                /\ ret' = call @@ [status |-> 429]
                /\ UNCHANGED <<now, admitted, cache, cacheHist, messages>>
           ELSE /\ clients' = rl.clients
                /\ admitted' = Append(admitted, [client_ip |-> client_ip, time |-> now])
                /\ IF CacheHit(user_text, provider_in)
                   THEN PostAdmitted(call, user_text, provider_in, session_id, client_ip,
                                     [kind |-> "raise"], <<>>, now)
                   ELSE IF provider_in = NOT_A_STRING
                   THEN \E canned \in FallbackResponses(user_text) :
                          PostAdmitted(call, user_text, provider_in, session_id, client_ip,
                                       [kind |-> "raise"], canned, now)
                   ELSE \E t1 \in ReturnTimes(PostMaxTime) :
                          \/ \E text \in ResponseTexts :
                               PostAdmitted(call, user_text, provider_in, session_id, client_ip,
                                            [kind |-> "text", text |-> text], <<>>, t1)
                          \/ \E canned \in FallbackResponses(user_text) :
                               PostAdmitted(call, user_text, provider_in, session_id, client_ip,
                                            [kind |-> "raise"], canned, t1)

\* SessionHistoryView.get
History(session_id) ==
    LET r == Store_Get(messages, session_id, now)
    IN  /\ messages' = r.messages
        /\ ret' = [op |-> "history", session_id |-> session_id, history |-> r.history,
                   status |-> 200]
        /\ UNCHANGED <<now, clients, admitted, cache, cacheHist, metrics, requests,
                       stream, parked, threads>>

PostTick == TickTo(PostMaxTime)

Next ==
    \/ PostTick
    \/ \E text_in \in PostTexts, provider_in \in PostProviders, session_in \in PostSessions,
          client_ip \in PostClientIps :
          Post(text_in, provider_in, session_in, client_ip)
    \/ \E session_id \in {"s1", "uuid1"} : History(session_id)

Spec == Init /\ [][Next]_vars

\* C10: a dialogue request whose text is empty or only whitespace is answered
\* with the validation failure (HTTP 400); it invokes no responder, makes no
\* cache lookup, and leaves the rate limiter, the cache, the conversation store
\* and the metrics as they were.
C10_EmptyTextTouchesNothing ==
    [][(requests' # requests /\ ret'.op = "post" /\ Strip(ret'.text_in) = <<>>) =>
        /\ ret'.status = 400
        /\ ~ret'.invoked
        /\ ~ret'.looked
        /\ UNCHANGED <<clients, cache, messages, metrics>>]_vars

\* A whitespace-only request has been rejected while every store held something.
C10_Witness ==
    /\ ret.op = "post"
    /\ ret.text_in = <<" ">>
    /\ ret.status = 400
    /\ DOMAIN clients # {}
    /\ cache # <<>>
    /\ DOMAIN messages # {}
    /\ metrics.total_requests > 0

\* A step of Post that got past the validation of the text.
PostValidated ==
    /\ requests' # requests
    /\ ret'.op = "post"
    /\ ret'.text_in # NOT_A_STRING
    /\ Strip(ret'.text_in) # <<>>

\* C11: when the rate limiter denies a dialogue request, the handler adds
\* exactly one to rate_limited_requests and answers with the rate-limit error
\* (HTTP 429); it looks nothing up in the cache, invokes no responder, and
\* leaves the cache, the conversation store, total_requests, the per-source
\* counters and the latency buffer as they were.
C11_DeniedOnlyCounts ==
    [][(PostValidated /\ ~RL_IsAllowed(clients, ret'.client_ip, now).allowed) =>
        /\ ret'.status = 429
        /\ metrics' = [metrics EXCEPT !.rate_limited_requests = @ + 1]
        /\ ~ret'.invoked
        /\ ~ret'.looked
        /\ UNCHANGED <<cache, messages>>]_vars

\* A request has been denied while the cache, the store and the counters
\* held the traces of the admitted ones.
C11_Witness ==
    /\ ret.op = "post"
    /\ ret.status = 429
    /\ metrics.rate_limited_requests = 1
    /\ metrics.total_requests = calls_per_minute
    /\ cache # <<>>
    /\ DOMAIN messages # {}

\* The entry the cache holds, before the step, for the key the step looks up,
\* when it holds one that is younger than ttl_seconds.
HeldUnexpired ==
    LET i == Cache_Index(cache, ret'.lookup.key)
    IN  IF i # 0 /\ Fresh(now - cache[i].timestamp) THEN <<cache[i]>> ELSE <<>>

\* C12: when the cache holds an unexpired entry for the (prompt, provider) of
\* an admitted dialogue request, the handler answers with the cached text and
\* the source "<provider>-cache", and invokes no responder.
C12_HitServedFromCache ==
    [][(PostValidated /\ ret'.looked /\ HeldUnexpired # <<>>) =>
        /\ ret'.response = HeldUnexpired[1].response
        /\ ret'.source = ret'.provider \o CACHE_SUFFIX
        /\ ~ret'.invoked]_vars

\* A step of Post that the rate limiter admitted.
PostAdmittedStep ==
    PostValidated /\ RL_IsAllowed(clients, ret'.client_ip, now).allowed

\* C13: when the chosen responder fails, the handler answers successfully
\* (HTTP 200) with a text of the canned responder and the source fallback.
C13_FailureBecomesFallback ==
    [][(PostAdmittedStep /\ ret'.invoked /\ ret'.raised) =>
        /\ ret'.status = 200
        /\ ret'.source = TAG_FALLBACK
        /\ ret'.response \in FallbackResponses(Strip(ret'.text_in))]_vars

\* The step was not answered from the cache.
NotServedFromCache == ~(ret'.looked /\ Truthy(ret'.lookup.value))

\* C14 as claimed: every admitted request that is not served from the cache
\* leaves the response it returns in the cache, under its (prompt, provider).
C14_AsClaimed ==
    [][(PostAdmittedStep /\ ret'.looked /\ NotServedFromCache) =>
        HoldsFresh(ret'.lookup.key, ret'.response)]_vars

\* C14 amended: an admitted request that is not served from the cache leaves
\* the text of its responder in the cache when the responder returns; when the
\* responder fails and the fallback answers, nothing is put into the cache.
C14_CachePopulated ==
    [][(PostAdmittedStep /\ ret'.looked /\ NotServedFromCache) =>
        IF ret'.raised
        THEN /\ ret'.source = TAG_FALLBACK
             /\ Range(cache') \subseteq Range(cache)
        ELSE /\ ret'.response = ret'.text
             /\ HoldsFresh(ret'.lookup.key, ret'.response)]_vars

\* One request has put its responder's text into the cache, and a later one,
\* for another key, was answered by the fallback and put nothing.
C14_Witness ==
    /\ ret.op = "post"
    /\ ret.invoked
    /\ ret.raised
    /\ ret.source = TAG_FALLBACK
    /\ cache # <<>>
    /\ Cache_Index(cache, ret.lookup.key) = 0

\* After the step the session ends with the user turn and the assistant turn
\* of the exchange, written at t, behind the latest turns it held before (none
\* when it had expired), as many as max_messages leaves room for.
TurnPairAppended(session_id, user_text, response_text, t) ==
    LET before == IF session_id \in DOMAIN messages /\ ~Expired(messages[session_id], t)
                  THEN messages[session_id] ELSE <<>>
        after == messages'[session_id]
        kept == IF Len(before) <= max_messages - 2 THEN before
                ELSE SubSeq(before, Len(before) - (max_messages - 2) + 1, Len(before))
    IN  /\ session_id \in DOMAIN messages'
        /\ after = kept \o <<[role |-> "user", content |-> user_text, timestamp |-> t],
                             [role |-> "assistant", content |-> response_text, timestamp |-> t]>>

\* C15: every admitted dialogue request with non-empty text, whether answered
\* from the cache, by the responder or by the fallback, appends one user turn
\* and then one assistant turn to its session, makes one record_request call
\* with its latency and source, and then returns its response (HTTP 200).
C15_TurnsAndMetric ==
    [][PostAdmittedStep =>
        /\ metrics' = Metrics_RecordRequest(metrics, ret'.latency_ms, ret'.source)
        /\ TurnPairAppended(ret'.session_id, Strip(ret'.text_in), ret'.response, now')
        /\ ret'.status = 200]_vars

\* The last two entries of a history list.
LastTwo(history) ==
    IF Len(history) < 2 THEN history ELSE SubSeq(history, Len(history) - 1, Len(history))

\* C22: an admitted dialogue request for which get_llm_response returns is
\* answered (HTTP 200) with the text and the source it returned, and with a
\* session_id, the supplied one or a new one, such that a history read of that
\* id made next returns the exchange's user turn and assistant turn.
C22_ResponseContract ==
    [][(PostAdmittedStep /\ ~ret'.raised) =>
        /\ ret'.status = 200
        /\ ret'.response = ret'.text
        /\ ret'.source = IF Truthy(ret'.lookup.value) THEN ret'.provider \o CACHE_SUFFIX
                         ELSE ret'.provider
        /\ ret'.session_id \in (PostSessions \ {NO_SESSION}) \cup {Uuid(requests')}
        /\ LastTwo(Store_Get(messages', ret'.session_id, now').history)
              = <<[role |-> "user", content |-> Strip(ret'.text_in)],
                  [role |-> "assistant", content |-> ret'.response]>>]_vars

---------------------------------------------------------------------------
(* StreamConsumer (consumers.py:21-178): one WebSocket connection.  The    *)
(* consumer coroutine and the queue.put coroutines run on the event loop,  *)
(* the generator in a worker thread.  Every send succeeds.                 *)

StartEvent(source) == [type |-> "start", source |-> source]
TokenEvent(content) == [type |-> "token", content |-> content]
DoneEvent(source) == [type |-> "done", source |-> source]
ErrorEvent(message) == [type |-> "error", message |-> message]

\* The position of the first space of s, 0 when it has none.
FirstSpace(s) ==
    IF \E i \in 1..Len(s) : IsSpace(s[i])
    THEN CHOOSE i \in 1..Len(s) : IsSpace(s[i]) /\ \A j \in 1..(i - 1) : ~IsSpace(s[j])
    ELSE 0

\* str.split(' ')
RECURSIVE SplitSpace(_)
SplitSpace(s) ==
    IF FirstSpace(s) = 0 THEN <<s>>
    ELSE <<SubSeq(s, 1, FirstSpace(s) - 1)>> \o SplitSpace(SubSeq(s, FirstSpace(s) + 1, Len(s)))

\* token = word + (' ' if i < len(words) - 1 else '')
FallbackTokens(response) ==
    LET words == SplitSpace(response)
    IN  [i \in 1..Len(words) |-> words[i] \o (IF i < Len(words) THEN <<" ">> ELSE <<>>)]

QueuePutFront(q, item) == <<item>> \o q

\* asyncio.Queue.put on an unbounded queue: the item goes to the back.
QueuePut(q, item) == Append(q, item)

\* The non-empty texts a streaming responder yields (`if chunk.text`, `if token`).
Fragments == {<<"a">>, <<"b">>}

StreamTexts == {<<>>, <<" ">>, <<" ", "H">>, NOT_A_STRING}
StreamProviders == {<<>>, <<"L", "O", "C", "A", "L">>, NOT_A_STRING}
StreamSessions == {NO_SESSION, "s1", UNHASHABLE}

\* json.loads fails, or yields something that has no .get
BadPayloads == {"invalid json", "not an object"}

StreamUnchanged ==
    UNCHANGED <<now, clients, admitted, cache, cacheHist, metrics, parked, threads>>

\* receive() of a text frame that is no JSON object: one error event.
ReceiveBad(payload) ==
    /\ stream.pc = "idle"
    /\ ~stream.closed
    /\ requests < MaxMessages
    /\ requests' = requests + 1
    /\ stream' = [StreamIdle EXCEPT !.sent =
                    <<ErrorEvent(IF payload = "invalid json" THEN "Invalid JSON format"
                                 ELSE "str(e)")>>]
    /\ ret' = [op |-> "receive", payload |-> payload]
    /\ UNCHANGED messages
    /\ StreamUnchanged

\* receive() of a JSON object, up to the first await that can suspend it:
\* validation, stream_response, and stream_llm_response up to queue.get().
ReceiveUpTo(limit, text_in, provider_in, session_in) ==
    /\ stream.pc = "idle"
    /\ ~stream.closed
    /\ requests < limit
    /\ requests' = requests + 1
    /\ ret' = [op |-> "receive", payload |-> "object", text_in |-> text_in,
               provider_in |-> provider_in, session_in |-> session_in]
    /\ stream' =
         IF text_in = NOT_A_STRING THEN [StreamIdle EXCEPT !.sent = <<ErrorEvent("str(e)")>>]
         ELSE IF Strip(text_in) = <<>>
         THEN [StreamIdle EXCEPT !.sent = <<ErrorEvent("Text field is required")>>]
         ELSE IF provider_in = NOT_A_STRING
         THEN \* normalize_provider raises in stream_response, outside its try
              [StreamIdle EXCEPT !.sent = <<ErrorEvent("str(e)")>>]
         ELSE [StreamIdle EXCEPT
                 !.pc = "consume",
                 !.user_text = Strip(text_in),
                 !.provider = NormalizeProvider(provider_in),
                 !.session_id = SessionIdOf(session_in, requests + 1),
                 !.sent = <<StartEvent(NormalizeProvider(provider_in))>>,
                 !.ppc = "running"]
    /\ UNCHANGED messages
    /\ StreamUnchanged

Receive(text_in, provider_in, session_in) ==
    ReceiveUpTo(MaxMessages, text_in, provider_in, session_in)

\* The generator yields a fragment: produce() hands queue.put(chunk) to the loop.
ProducerYield(chunk) ==
    /\ stream.ppc = "running"
    /\ Len(stream.emitted) < MaxFragments
    /\ stream' = [stream EXCEPT !.emitted = Append(@, chunk),
                                !.scheduled = Append(@, chunk)]
    /\ UNCHANGED <<messages, requests, ret>>
    /\ StreamUnchanged

ProducerEndNoFinally(raised) ==
    /\ stream.ppc = "running"
    /\ stream' = [stream EXCEPT !.ppc = IF raised THEN "raised" ELSE "finished",
                                !.scheduled = IF raised THEN @ ELSE Append(@, None)]
    /\ UNCHANGED <<messages, requests, ret>>
    /\ StreamUnchanged

\* The generator is exhausted (raised = FALSE) or raises: the finally clause
\* hands queue.put(None) to the loop and the thread ends.
ProducerEnd(raised) ==
    /\ stream.ppc = "running"
    /\ stream' = [stream EXCEPT !.ppc = IF raised THEN "raised" ELSE "finished",
                                !.scheduled = Append(@, None)]
    /\ UNCHANGED <<messages, requests, ret>>
    /\ StreamUnchanged

\* The loop runs the oldest queue.put coroutine handed to it.
LoopRunPut ==
    /\ stream.scheduled # <<>>
    /\ stream' = [stream EXCEPT !.scheduled = Tail(@),
                                !.queue = QueuePut(@, Head(stream.scheduled))]
    /\ UNCHANGED <<messages, requests, ret>>
    /\ StreamUnchanged

\* Entering the fallback path: stream_fallback_response up to its first token.
EnterFallback(st, canned) ==
    [st EXCEPT !.pc = "fallback",
               !.response = canned,
               !.tokens = FallbackTokens(canned),
               !.sent = Append(@, StartEvent(TAG_FALLBACK))]

ConsumerGetBreaksAlways ==
    /\ stream.pc = "consume"
    /\ stream.queue # <<>>
    /\ stream' = [stream EXCEPT !.queue = Tail(@), !.pc = "join"]
    /\ UNCHANGED <<messages, requests, ret>>
    /\ StreamUnchanged

\* One turn of the while loop: chunk = await queue.get(), then either break on
\* the sentinel or collect and send the chunk.
ConsumerGet ==
    /\ stream.pc = "consume"
    /\ stream.queue # <<>>
    /\ LET chunk == Head(stream.queue)
       IN  stream' = IF chunk = None
                     THEN [stream EXCEPT !.queue = Tail(@), !.pc = "join"]
                     ELSE [stream EXCEPT !.queue = Tail(@),
                                         !.collected = Append(@, chunk),
                                         !.sent = Append(@, TokenEvent(chunk))]
    /\ UNCHANGED <<messages, requests, ret>>
    /\ StreamUnchanged

\* await producer_task returns: send done, then write the history (lines 133-143).
\* A TypeError of the history write is caught at line 145 and re-raised into
\* stream_response, which starts the fallback.
ConsumerJoinDone ==
    /\ stream.pc = "join"
    /\ stream.ppc = "finished"
    /\ LET done == [stream EXCEPT !.sent = Append(@, DoneEvent(stream.provider))]
       IN  IF Hashable(stream.session_id)
           THEN /\ stream' = [done EXCEPT !.pc = "idle"]
                /\ messages' = Store_AddPair(messages, stream.session_id, stream.user_text,
                                             Join(stream.collected), now)
           ELSE /\ \E canned \in FallbackResponses(stream.user_text) :
                     stream' = EnterFallback(done, canned)
                /\ messages' = Store_PurgeExpired(messages, now)
    /\ UNCHANGED <<requests, ret>>
    /\ StreamUnchanged

\* await producer_task raises what the generator raised: the fallback starts.
ConsumerJoinRaised ==
    /\ stream.pc = "join"
    /\ stream.ppc = "raised"
    /\ \E canned \in FallbackResponses(stream.user_text) :
          stream' = EnterFallback(stream, canned)
    /\ UNCHANGED <<messages, requests, ret>>
    /\ StreamUnchanged

\* One turn of the for loop of stream_fallback_response.
FallbackToken ==
    /\ stream.pc = "fallback"
    /\ stream.tokens # <<>>
    /\ stream' = [stream EXCEPT !.tokens = Tail(@),
                                !.sent = Append(@, TokenEvent(Head(stream.tokens)))]
    /\ UNCHANGED <<messages, requests, ret>>
    /\ StreamUnchanged

\* The end of stream_fallback_response: send done, then write the history.  A
\* TypeError of the history write reaches receive(), which sends an error event.
FallbackDone ==
    /\ stream.pc = "fallback"
    /\ stream.tokens = <<>>
    /\ LET done == [stream EXCEPT !.pc = "idle", !.sent = Append(@, DoneEvent(TAG_FALLBACK))]
       IN  IF Hashable(stream.session_id)
           THEN /\ stream' = done
                /\ messages' = Store_AddPair(messages, stream.session_id, stream.user_text,
                                             stream.response, now)
           ELSE /\ stream' = [done EXCEPT !.sent = Append(@, ErrorEvent("str(e)"))]
                /\ messages' = Store_PurgeExpired(messages, now)
    /\ UNCHANGED <<requests, ret>>
    /\ StreamUnchanged

\* The client goes away.  The websocket.disconnect message waits until
\* receive() has returned; disconnect() then only logs (lines 41-43), and
\* nothing in receive() or below looks at the connection.
Disconnect ==
    /\ ~stream.closed
    /\ stream' = [stream EXCEPT !.closed = TRUE]
    /\ UNCHANGED <<messages, requests, ret>>
    /\ StreamUnchanged

NextStream ==
    \/ \E payload \in BadPayloads : ReceiveBad(payload)
    \/ \E text_in \in StreamTexts, provider_in \in StreamProviders,
          session_in \in StreamSessions : Receive(text_in, provider_in, session_in)
    \/ \E chunk \in Fragments : ProducerYield(chunk)
    \/ \E raised \in BOOLEAN : ProducerEnd(raised)
    \/ LoopRunPut
    \/ ConsumerGet
    \/ ConsumerJoinDone
    \/ ConsumerJoinRaised
    \/ FallbackToken
    \/ FallbackDone
    \/ Disconnect

SpecStream == Init /\ [][NextStream]_vars

\* The worker thread that runs produce(): it keeps running until the
\* generator is exhausted or raises.
ProducerThread ==
    \/ \E chunk \in Fragments : ProducerYield(chunk)
    \/ \E raised \in BOOLEAN : ProducerEnd(raised)

\* The event loop: it runs every callback and coroutine that is ready.
EventLoop ==
    \/ LoopRunPut
    \/ ConsumerGet
    \/ ConsumerJoinDone
    \/ ConsumerJoinRaised
    \/ FallbackToken
    \/ FallbackDone

\* The streaming consumer with a producer thread and an event loop that are
\* never starved.
SpecStreamFair ==
    Init /\ [][NextStream]_vars /\ WF_vars(ProducerThread) /\ WF_vars(EventLoop)

\* Two connections on one event loop. stream is the exchange of the
\* connection whose code runs next, parked the exchange of the other one,
\* which waits at an await or has a worker thread of its own. The loop
\* hands control from one to the other at every await; one message is
\* received for each connection.
Connections == {"c1", "c2"}

LoopTexts == {<<" ", "H">>}
LoopProviders == {<<>>}
LoopSessions == {"s1", "s2"}

LoopSwitchWhenReturned ==
    /\ requests > 0
    /\ stream.pc = "idle"
    /\ stream' = parked
    /\ parked' = stream
    /\ UNCHANGED <<now, clients, admitted, cache, cacheHist, messages, metrics,
                   requests, ret, threads>>

\* The coroutine that runs reaches an await (queue.get, send, sleep, the
\* producer task) and the loop resumes the other connection's coroutine.
LoopSwitch ==
    /\ requests > 0
    /\ stream' = parked
    /\ parked' = stream
    /\ UNCHANGED <<now, clients, admitted, cache, cacheHist, messages, metrics,
                   requests, ret, threads>>

NextLoop ==
    \/ \E text_in \in LoopTexts, provider_in \in LoopProviders, session_in \in LoopSessions :
          ReceiveUpTo(Cardinality(Connections), text_in, provider_in, session_in)
    \/ ProducerThread
    \/ EventLoop
    \/ LoopSwitch

SpecLoop == Init /\ [][NextLoop]_vars

\* The events of the given type sent for the message, in order.
SentOf(type) == SelectSeq(stream.sent, LAMBDA e : e.type = type)

\* The message has been handled to the end: receive() has returned.
Handled == requests > 0 /\ stream.pc = "idle"

\* The position in sent of the start of the fallback, 0 when there is none.
FallbackStartAt ==
    IF \E i \in 1..Len(stream.sent) : stream.sent[i] = StartEvent(TAG_FALLBACK)
    THEN CHOOSE i \in 1..Len(stream.sent) : stream.sent[i] = StartEvent(TAG_FALLBACK)
    ELSE 0

\* The contents of the tokens sent on the provider path, in the order sent.
ForwardedTokens ==
    LET part == IF FallbackStartAt = 0 THEN stream.sent
                ELSE SubSeq(stream.sent, 1, FallbackStartAt - 1)
        tokens == SelectSeq(part, LAMBDA e : e.type = "token")
    IN  [i \in 1..Len(tokens) |-> tokens[i].content]

IsPrefix(s, t) == Len(s) <= Len(t) /\ s = SubSeq(t, 1, Len(s))

\* C2: when the producer yields f1..fn and ends without failing, the events
\* sent for the message are exactly start(provider), token(f1)..token(fn),
\* done(provider): no error event and no second start.
C2_SuccessEvents ==
    (Handled /\ stream.ppc = "finished")
        => stream.sent = <<StartEvent(stream.provider)>>
                         \o [i \in 1..Len(stream.emitted) |-> TokenEvent(stream.emitted[i])]
                         \o <<DoneEvent(stream.provider)>>

\* C3: at every moment the tokens forwarded to the client are a prefix of the
\* fragments the producer has emitted, in emission order, and once the consumer
\* has taken the sentinel every emitted fragment has been forwarded: none is
\* skipped, repeated or reordered, whether or not the producer failed.
C3_ForwardedIsPrefix ==
    /\ IsPrefix(ForwardedTokens, stream.emitted)
    /\ stream.collected = ForwardedTokens
    /\ (stream.ppc # "none" /\ stream.pc \notin {"consume"}) => ForwardedTokens = stream.emitted

\* C3 witness: the producer yielded two different fragments and then raised,
\* the first was forwarded while the second was still on its way to the queue.
C3_Witness ==
    /\ stream.ppc = "raised"
    /\ stream.emitted = <<(<<"a">>), (<<"b">>)>>
    /\ ForwardedTokens = <<(<<"a">>)>>
    /\ stream.scheduled = <<(<<"b">>), None>>

\* C4: when the producer raised, the message ends with exactly one done event,
\* whose source is fallback, with no error event and exactly two start events.
C4_FallbackEvents ==
    (Handled /\ stream.ppc = "raised")
        => /\ SentOf("done") = <<DoneEvent(TAG_FALLBACK)>>
           /\ SentOf("error") = <<>>
           /\ SentOf("start") = <<StartEvent(stream.provider), StartEvent(TAG_FALLBACK)>>

\* C5: a message never gets more than one terminal event (done or error), and
\* once it has been handled it has got exactly one.
C5_ExactlyOneTerminal ==
    /\ Len(SentOf("done")) + Len(SentOf("error")) <= 1
    /\ Handled => Len(SentOf("done")) + Len(SentOf("error")) = 1

\* The step ends an exchange as a success: the producer has ended normally,
\* done(provider) is the last event sent, and receive() returns.
StreamSucceeds ==
    /\ stream.pc = "join"
    /\ stream'.pc = "idle"
    /\ stream'.sent[Len(stream'.sent)] = DoneEvent(stream.provider)

\* C16: when a streaming exchange succeeds for a request that carried a session
\* identifier, that session ends with a user turn holding the prompt (the text
\* of the request, stripped) and then an assistant turn whose content is the
\* concatenation, in order, of the fragments sent as token events.
C16_SuccessPersisted ==
    [][(StreamSucceeds /\ ret.session_in # NO_SESSION) =>
        TurnPairAppended(ret.session_in, Strip(ret.text_in), Join(ForwardedTokens'), now)]_vars

\* An exchange for session s1 has succeeded after the tokens a and b, and s1
\* ends with the prompt and the text ab.
C16_Witness ==
    /\ Handled
    /\ ret.payload = "object"
    /\ ret.session_in = "s1"
    /\ ForwardedTokens = <<(<<"a">>), (<<"b">>)>>
    /\ stream.sent[Len(stream.sent)] = DoneEvent(stream.provider)
    /\ "s1" \in DOMAIN messages
    /\ messages["s1"][Len(messages["s1"])].content = <<"a", "b">>

\* C17: an exchange whose request carries no session identifier leaves the
\* conversation store as it was at every step.
C17_NoSessionNoWrite ==
    [][(ret'.op = "receive" /\ ret'.payload = "object" /\ ret'.session_in = NO_SESSION) =>
        messages' = messages]_vars

\* The step begins the streaming of a request / ends an exchange with a done event.
StreamBegins == requests' # requests /\ stream'.pc = "consume"
StreamDone ==
    /\ stream.pc # "idle"
    /\ stream'.pc = "idle"
    /\ stream'.sent[Len(stream'.sent)].type = "done"

\* C18: a streaming exchange passes the admission check of the rate limiter
\* before it streams (the limiter notes the admission for some client), and it
\* is recorded in the metrics when it is done.
C18_StreamUsesStores ==
    [][/\ StreamBegins =>
            \E client_ip \in ClientIps :
                /\ RL_IsAllowed(clients, client_ip, now).allowed
                /\ clients' = RL_IsAllowed(clients, client_ip, now).clients
       /\ StreamDone => metrics'.total_requests = metrics.total_requests + 1]_vars

\* C20: once the client has disconnected, no further event is sent.
C20_NoEventAfterDisconnect ==
    [][stream.closed => stream'.sent = stream.sent]_vars

\* the message received last is not valid JSON, or is an object whose text
\* is a string with nothing but whitespace in it
RejectedRequest(call) ==
    /\ call.op = "receive"
    /\ \/ call.payload = "invalid json"
       \/ /\ call.payload = "object"
          /\ call.text_in # NOT_A_STRING
          /\ \A i \in DOMAIN call.text_in : IsSpace(call.text_in[i])

\* C26: a streaming request whose text is empty or whose payload is not
\* valid JSON produces exactly one error event and nothing else: no start,
\* token or done event is sent, no producer is launched, nothing is
\* scheduled or queued, and no step of the exchange writes the store.
C26_RejectedOnlyError ==
    [][RejectedRequest(ret') =>
        /\ Len(stream'.sent) = 1
        /\ stream'.sent[1].type = "error"
        /\ stream'.pc = "idle"
        /\ stream'.ppc = "none"
        /\ stream'.scheduled = <<>>
        /\ stream'.queue = <<>>
        /\ messages' = messages]_vars

\* a request with the empty text was answered by the one error event
\* "Text field is required" and the store is as empty as before
C26_Witness ==
    /\ ret.op = "receive"
    /\ ret.payload = "object"
    /\ ret.text_in = <<>>
    /\ stream.sent = <<ErrorEvent("Text field is required")>>
    /\ stream.ppc = "none"
    /\ messages = EmptyDict

\* what the producer has handed over and the consumer has not yet taken:
\* the queue, then the puts the loop has still to run
Pending == stream.queue \o stream.scheduled

ProducerEnded == stream.ppc \in {"finished", "raised"}

\* C30: in every streaming exchange the sentinel is enqueued exactly once,
\* when the producer has finished or raised, and after all its fragments:
\* while the consumer polls, the fragments emitted are those collected and
\* those pending, in order, and the sentinel of an ended producer is the
\* last thing pending; once the consumer has met the sentinel it has
\* forwarded every fragment and nothing is pending any more.
C30_SentinelOnceAndLast ==
    LET polling == stream.pc = "consume"
        sentinels == {i \in DOMAIN Pending : Pending[i] = None}
    IN  /\ Cardinality(sentinels) = IF ProducerEnded /\ polling THEN 1 ELSE 0
        /\ sentinels # {} => Pending[Len(Pending)] = None
        /\ stream.emitted =
              stream.collected \o SelectSeq(Pending, LAMBDA chunk : chunk # None)
        /\ (stream.ppc # "none" /\ ~polling) =>
              /\ ProducerEnded
              /\ Pending = <<>>
              /\ ForwardedTokens = stream.emitted

\* the producer raised after a fragment; the consumer forwarded the
\* fragment, met the sentinel and waits for the producer task
C30_Witness ==
    /\ stream.ppc = "raised"
    /\ stream.pc = "join"
    /\ stream.emitted # <<>>
    /\ ForwardedTokens = stream.emitted
    /\ Pending = <<>>

\* the fragments waiting in the hand-off queue
QueuedFragments == SelectSeq(stream.queue, LAMBDA chunk : chunk # None)

\* C31: the hand-off queue is bounded: a fixed capacity keeps the fragments
\* waiting in it below what the producer emits when it runs ahead of the
\* consumer, so the queue never holds all MaxFragments fragments of a
\* producer that the consumer has not begun to drain.
C31_QueueBounded == Len(QueuedFragments) < MaxFragments

TokenEvents(chunks) == [i \in 1..Len(chunks) |-> TokenEvent(chunks[i])]

\* The step ends the fallback stream of an exchange whose producer raised
\* after fragments had been forwarded.
FallbackEndsAfterTokens ==
    /\ stream.pc = "fallback"
    /\ stream'.pc = "idle"
    /\ stream.ppc = "raised"
    /\ stream.collected # <<>>

\* C34: when the producer raises after fragments were forwarded, the client
\* has received start, those provider tokens, the fallback start, every
\* fallback token and done(fallback), and nothing else; the session of the
\* exchange ends with one turn pair, the prompt and then the fallback
\* response alone, which is the concatenation of the fallback token events.
C34_PartialThenFallback ==
    [][FallbackEndsAfterTokens =>
        /\ stream'.sent =
              <<StartEvent(stream.provider)>> \o TokenEvents(stream.collected)
                  \o <<StartEvent(TAG_FALLBACK)>>
                  \o TokenEvents(FallbackTokens(stream.response))
                  \o <<DoneEvent(TAG_FALLBACK)>>
        /\ Join(FallbackTokens(stream.response)) = stream.response
        /\ TurnPairAppended(stream.session_id, stream.user_text,
                            Join(FallbackTokens(stream.response)), now)]_vars

\* C33: an exchange that has started streaming (a well-formed request)
\* eventually sends a done event when the producer thread and the event
\* loop keep running; and the consumer leaves the polling loop only by
\* taking the sentinel from the queue.
C33_EventuallyDone ==
    /\ [][(stream.pc = "consume" /\ stream'.pc # "consume") =>
            (stream.queue # <<>> /\ Head(stream.queue) = None)]_vars
    /\ (stream.pc = "consume") ~> (SentOf("done") # <<>>)

\* an exchange whose producer finished after fragments has ended with the
\* one done event of its provider, every fragment forwarded before it
C33_Witness ==
    /\ stream.pc = "idle"
    /\ stream.ppc = "finished"
    /\ stream.emitted # <<>>
    /\ ForwardedTokens = stream.emitted
    /\ SentOf("done") = <<DoneEvent(stream.provider)>>
    /\ stream.sent[Len(stream.sent)] = DoneEvent(stream.provider)

\* the producer of the exchange has emitted neither a fragment nor the
\* sentinel, and its consumer polls the queue
Stalled(exchange) ==
    /\ exchange.pc = "consume"
    /\ exchange.ppc = "running"
    /\ exchange.emitted = <<>>

\* C32: while the producer of one exchange is stalled, its consumer waits
\* on the empty hand-off queue and on nothing else, and the event loop is
\* free for the other exchange: control can pass to the other connection,
\* and an exchange in progress there always has a step it can take.
C32_StalledDoesNotBlock ==
    /\ \A exchange \in {stream, parked} :
          Stalled(exchange) =>
              /\ exchange.queue = <<>>
              /\ exchange.scheduled = <<>>
              /\ exchange.sent = <<StartEvent(exchange.provider)>>
    /\ Stalled(stream) => ENABLED LoopSwitch
    /\ (Stalled(parked) /\ stream.pc # "idle") => ENABLED (ProducerThread \/ EventLoop)

\* the exchange of session s1 started first and its producer is stalled;
\* the exchange of s2, received after it, has run to its done event and
\* has written its turns
C32_Witness ==
    /\ Stalled(parked)
    /\ parked.session_id = "s1"
    /\ ret.op = "receive"
    /\ ret.session_in = "s2"
    /\ stream.session_id = "s2"
    /\ stream.pc = "idle"
    /\ stream.sent[Len(stream.sent)] = DoneEvent(stream.provider)
    /\ "s2" \in DOMAIN messages
    /\ "s1" \notin DOMAIN messages


---------------------------------------------------------------------------
(* The four stores called from concurrent threads.  Every public operation *)
(* runs its whole body under the store's lock (`with self.lock:`,          *)
(* utils.py:38, 83, 96, 151, 164; session_store.py:25, 32).  A body reads  *)
(* the store's state and writes it back: a thread inside a body is first   *)
(* "locked" (lock taken), then "loaded" (state read), and writes, returns  *)
(* and releases in one step, since nothing of it is visible before.        *)

\* The calls the threads make.
ThreadCalls ==
    {[store |-> "limiter", op |-> "is_allowed", client_ip |-> "ip1"]}
    \cup {[store |-> "metrics", op |-> "record_rate_limit"]}
    \cup {[store |-> "metrics", op |-> "record_request", latency_ms |-> 0, source |-> TAG_LOCAL]}
    \cup {[store |-> "store", op |-> "add", session_id |-> "s1", role |-> "user",
           content |-> content] : content \in {<<"h">>, <<"o", "k">>}}
    \cup {[store |-> "store", op |-> "get", session_id |-> "s1"]}
    \cup {[store |-> "cache", op |-> "cache_set", prompt |-> <<"h">>, response |-> <<"o", "k">>,
           provider |-> TAG_LOCAL]}
    \cup {[store |-> "cache", op |-> "cache_get", prompt |-> <<"h">>, provider |-> TAG_LOCAL]}

\* The state of a store.
StoreValue(store) ==
    CASE store = "limiter" -> clients
      [] store = "cache" -> cache
      [] store = "store" -> messages
      [] store = "metrics" -> metrics

\* The body of an operation, run at time t on the store state v: the state it
\* leaves and the value it returns.
StoreCall(v, call, t) ==
    CASE call.op = "is_allowed" ->
            LET r == RL_IsAllowed(v, call.client_ip, t)
            IN  [value |-> r.clients, result |-> r.allowed]
      [] call.op = "record_rate_limit" ->
            [value |-> Metrics_RecordRateLimit(v), result |-> None]
      [] call.op = "record_request" ->
            [value |-> Metrics_RecordRequest(v, call.latency_ms, call.source), result |-> None]
      [] call.op = "add" ->
            [value |-> Store_Add(v, call.session_id, call.role, call.content, t),
             result |-> None]
      [] call.op = "get" ->
            LET r == Store_Get(v, call.session_id, t)
            IN  [value |-> r.messages, result |-> r.history]
      [] call.op = "cache_set" ->
            [value |-> Cache_Set(v, call.prompt, call.response, call.provider, t).cache,
             result |-> None]
      [] call.op = "cache_get" ->
            LET r == Cache_Get(v, call.prompt, call.provider, t)
            IN  [value |-> r.cache, result |-> r.value]

LockNeverHeld(th, store) == FALSE

\* threading.Lock: the store's lock is held by a thread that is inside one of
\* the store's operations.
LockHeld(th, store) ==
    \E u \in Threads : th[u].pc # "idle" /\ th[u].call.store = store

\* `with self.lock:`  the thread enters the operation once the lock is free.
Acquire(t, call) ==
    /\ threads.of[t].pc = "idle"
    /\ requests < MaxCalls
    /\ ~LockHeld(threads.of, call.store)
    /\ requests' = requests + 1
    /\ threads' = [threads EXCEPT !.of[t] = [pc |-> "locked", call |-> call]]
    /\ UNCHANGED <<now, clients, admitted, cache, cacheHist, messages, metrics, ret,
                   stream, parked>>

\* The body reads the store's state.
Load(t) ==
    /\ threads.of[t].pc = "locked"
    /\ threads' = [threads EXCEPT !.of[t] =
                     [pc |-> "loaded", call |-> threads.of[t].call,
                      local |-> StoreValue(threads.of[t].call.store)]]
    /\ UNCHANGED <<now, clients, admitted, cache, cacheHist, messages, metrics, requests,
                   ret, stream, parked>>

\* The body writes the store's state, computed from what it read, returns,
\* and the lock is released.
Commit(t) ==
    /\ threads.of[t].pc = "loaded"
    /\ LET call == threads.of[t].call
           r == StoreCall(threads.of[t].local, call, now)
       IN  /\ clients' = IF call.store = "limiter" THEN r.value ELSE clients
           /\ cache' = IF call.store = "cache" THEN r.value ELSE cache
           /\ messages' = IF call.store = "store" THEN r.value ELSE messages
           /\ metrics' = IF call.store = "metrics" THEN r.value ELSE metrics
           /\ admitted' = IF call.op = "is_allowed" /\ r.result
                          THEN Append(admitted, [client_ip |-> call.client_ip, time |-> now])
                          ELSE admitted
           /\ cacheHist' = IF call.op = "cache_set"
                           THEN Hist_Set(cacheHist, call.prompt, call.response, call.provider, now,
                                         Cache_Set(threads.of[t].local, call.prompt, call.response,
                                                   call.provider, now).evicted)
                           ELSE cacheHist
           /\ ret' = [op |-> call.op, thread |-> t, result |-> r.result]
           /\ threads' = [of |-> [threads.of EXCEPT ![t] = [pc |-> "idle"]],
                          history |-> Append(threads.history,
                                             [thread |-> t, call |-> call, time |-> now,
                                              result |-> r.result])]
    /\ UNCHANGED <<now, requests, stream, parked>>

NextThreads ==
    \/ \E t \in Threads, call \in ThreadCalls : Acquire(t, call)
    \/ \E t \in Threads : Load(t)
    \/ \E t \in Threads : Commit(t)

SpecThreads == Init /\ [][NextThreads]_vars

\* The stores after the calls of h have been made one after the other, in the
\* order of h, on the stores S; ok when every call returned what h says.
RECURSIVE Replay(_, _)
Replay(S, h) ==
    IF h = <<>> THEN [stores |-> S, ok |-> TRUE]
    ELSE LET e == Head(h)
             r == StoreCall(S[e.call.store], e.call, e.time)
         IN  IF r.result # e.result THEN [stores |-> S, ok |-> FALSE]
             ELSE Replay([S EXCEPT ![e.call.store] = r.value], Tail(h))

\* The completed calls of the given operation.
CallsOf(op) == SelectSeq(threads.history, LAMBDA e : e.call.op = op)

\* C19: under every interleaving of the threads, the stores' states and the
\* values returned are those of the completed calls made one after the other
\* (in the order in which they released the lock); so no counter increment is
\* lost, no turn is lost, and no more than calls_per_minute of the is_allowed
\* calls made within one window return True.
C19_Linearizable ==
    LET seq == Replay([limiter |-> EmptyDict, cache |-> <<>>, store |-> EmptyDict,
                       metrics |-> Metrics_Init], threads.history)
    IN  /\ seq.ok
        /\ seq.stores = [limiter |-> clients, cache |-> cache, store |-> messages,
                         metrics |-> metrics]
        /\ metrics.rate_limited_requests = Len(CallsOf("record_rate_limit"))
        /\ metrics.total_requests = Len(CallsOf("record_request"))
        /\ Len(SelectSeq(CallsOf("is_allowed"), LAMBDA e : e.result)) <= calls_per_minute
        /\ CallsOf("add") # <<>> =>
              /\ "s1" \in DOMAIN messages
              /\ messages["s1"][Len(messages["s1"])].content
                    = CallsOf("add")[Len(CallsOf("add"))].call.content

\* Both threads have called is_allowed at the same time, one waiting at the
\* lock while the other was inside; the limit was reached and a call denied.
C19_Witness ==
    /\ Len(CallsOf("is_allowed")) = calls_per_minute + 1
    /\ {e.thread : e \in Range(CallsOf("is_allowed"))} = Threads
    /\ ~CallsOf("is_allowed")[calls_per_minute + 1].result
    /\ DOMAIN clients = {"ip1"}
    /\ Len(clients["ip1"]) = calls_per_minute

---------------------------------------------------------------------------
(* Concurrent dialogue exchanges (views.py:86-106, utils.py:198-216): each *)
(* thread runs post() from the cache lookup of get_llm_response to the two *)
(* history writes. Every store operation is one step, taken under the      *)
(* store's lock; between two of them the thread holds no lock.             *)

ExchangeTexts == {<<"h">>, <<"H">>}
ExchangeProviders == {<<>>, TAG_LOCAL}
ExchangeSessions == {"s1"}

\* what the responder returns to the thread
ResponseOf(t) == IF t = "t1" THEN <<"o", "k">> ELSE <<"n", "o">>

ExchangeUnchanged == UNCHANGED <<clients, admitted, metrics, stream, parked>>

\* post() up to response_cache.get in get_llm_response
ExLookup(t, text_in, provider_in, session_id) ==
    LET user_text == UserText(text_in)
        provider == NormalizeProvider(provider_in)
        r == Cache_Get(cache, user_text, provider, now)
    IN  /\ threads.of[t].pc = "idle"
        /\ requests < MaxCalls
        /\ requests' = requests + 1
        /\ cache' = r.cache
        /\ threads' = [threads EXCEPT !.of[t] =
                         [pc |-> IF Truthy(r.value) THEN "answered" ELSE "missed",
                          user_text |-> user_text, provider |-> provider,
                          session_id |-> session_id,
                          invoked |-> FALSE,
                          response |-> IF Truthy(r.value) THEN r.value ELSE <<>>]]
        /\ ret' = [op |-> "lookup", thread |-> t, value |-> r.value]
        /\ UNCHANGED <<now, cacheHist, messages>>
        /\ ExchangeUnchanged

\* the responder is invoked and returns its text
ExRespond(t) ==
    /\ threads.of[t].pc = "missed"
    /\ threads' = [threads EXCEPT !.of[t].pc = "responded",
                                  !.of[t].invoked = TRUE,
                                  !.of[t].response = ResponseOf(t)]
    /\ ret' = [op |-> "respond", thread |-> t]
    /\ UNCHANGED <<now, cache, cacheHist, messages, requests>>
    /\ ExchangeUnchanged

\* response_cache.set(user_text, response_text, provider)
ExSet(t) ==
    LET th == threads.of[t]
        r == Cache_Set(cache, th.user_text, th.response, th.provider, now)
    IN  /\ th.pc = "responded"
        /\ cache' = r.cache
        /\ cacheHist' = Hist_Set(cacheHist, th.user_text, th.response, th.provider, now,
                                 r.evicted)
        /\ threads' = [threads EXCEPT !.of[t].pc = "answered"]
        /\ ret' = [op |-> "cache_set", thread |-> t,
                   key |-> Cache_MakeKey(th.user_text, th.provider),
                   response |-> th.response, evicted |-> r.evicted]
        /\ UNCHANGED <<now, messages, requests>>
        /\ ExchangeUnchanged

\* conversation_store.add(session_id, 'user', user_text)
ExAddUser(t) ==
    LET th == threads.of[t]
    IN  /\ th.pc = "answered"
        /\ messages' = Store_Add(messages, th.session_id, "user", th.user_text, now)
        /\ threads' = [threads EXCEPT !.of[t].pc = "user_added"]
        /\ ret' = [op |-> "add", thread |-> t, role |-> "user"]
        /\ UNCHANGED <<now, cache, cacheHist, requests>>
        /\ ExchangeUnchanged

\* conversation_store.add(session_id, 'assistant', response_text)
ExAddAssistant(t) ==
    LET th == threads.of[t]
    IN  /\ th.pc = "user_added"
        /\ messages' = Store_Add(messages, th.session_id, "assistant", th.response, now)
        /\ threads' = [of |-> [threads.of EXCEPT ![t] = [pc |-> "idle"]],
                       history |-> Append(threads.history,
                                          [thread |-> t, user_text |-> th.user_text,
                                           provider |-> th.provider,
                                           response |-> th.response,
                                           invoked |-> th.invoked])]
        /\ ret' = [op |-> "add", thread |-> t, role |-> "assistant"]
        /\ UNCHANGED <<now, cache, cacheHist, requests>>
        /\ ExchangeUnchanged

ExchangeTick == TickTo(TickStep)

NextExchanges ==
    \/ \E t \in Threads, text_in \in ExchangeTexts, provider_in \in ExchangeProviders,
          session_id \in ExchangeSessions : ExLookup(t, text_in, provider_in, session_id)
    \/ \E t \in Threads : ExRespond(t)
    \/ \E t \in Threads : ExSet(t)
    \/ \E t \in Threads : ExAddUser(t)
    \/ \E t \in Threads : ExAddAssistant(t)
    \/ ExchangeTick

SpecExchanges == Init /\ [][NextExchanges]_vars

\* C35: in every session's history each assistant turn that has a turn
\* before it is immediately preceded by a user turn, the one of its own
\* exchange, also when several exchanges write the session concurrently.
C35_PairsAdjacent ==
    \A sid \in DOMAIN messages : \A i \in 2..Len(messages[sid]) :
        messages[sid][i].role = "assistant" =>
            /\ messages[sid][i - 1].role = "user"
            /\ \E e \in Range(threads.history) :
                  /\ e.response = messages[sid][i].content
                  /\ e.user_text = messages[sid][i - 1].content

\* C39: the lookup and the insert of get_llm_response are separate steps,
\* so exchanges for one (prompt, provider) may all miss and all invoke the
\* responder; every insert leaves its own response in the cache under the
\* key, whatever another exchange had put there, no other step changes or
\* adds an entry, and the cache never holds more than max_size entries.
C39_LastSetWins ==
    [][/\ Len(cache') <= max_size
       /\ IF ret'.op = "cache_set"
          THEN /\ ret'.key \in CacheKeys(cache')
               /\ cache'[Cache_Index(cache', ret'.key)] =
                     [key |-> ret'.key, response |-> ret'.response, timestamp |-> now]
               /\ ret'.response = threads.of[ret'.thread].response
          ELSE Range(cache') \subseteq Range(cache)]_vars

\* both threads looked up the same prompt and provider in the empty cache,
\* both missed and invoked the responder, both inserted; the cache holds
\* one entry, with the response of the thread that inserted last
C39_Witness ==
    /\ ret.op = "cache_set"
    /\ requests = 2
    /\ \A t \in Threads : threads.of[t].pc = "answered" /\ threads.of[t].invoked
    /\ threads.of["t1"].user_text = threads.of["t2"].user_text
    /\ threads.of["t1"].provider = threads.of["t2"].provider
    /\ threads.of["t1"].response # threads.of["t2"].response
    /\ Len(cache) = 1
    /\ cache[1].response = threads.of[ret.thread].response

---------------------------------------------------------------------------
(* MetricsTracker on its own: record_request and get_metrics               *)
(* (utils.py:81-121). A fixed run of earlier requests fills the tracker,   *)
(* and at some lengths of that run further requests are recorded and the   *)
(* metrics are read.                                                       *)

MaxSamples == 2

\* the latency of the i-th earlier request: 40, 20, 50, 30, 10, then the
\* same five raised by 50 for every further five, repeating after 25
EarlierLatency(i) == 10 * (((i * 3) % 5) + 1) + 50 * (((i - 1) \div 5) % 5)

EarlierSource(i) ==
    CASE i % 3 = 0 -> TAG_GEMINI
      [] i % 3 = 1 -> TAG_LOCAL
      [] OTHER -> TAG_FALLBACK

\* the lengths of the earlier run at which the tracker is exercised
SampleCounts == {0, 1, 2, 4, 5, 20, 21, LATENCY_MAXLEN - 1, LATENCY_MAXLEN}

\* the requests recorded after that: a latency and its source tag
Samples ==
    {<<5, TAG_GEMINI>>, <<2000, TAG_LOCAL>>, <<5, TAG_FALLBACK>>,
     <<2000, TAG_GEMINI \o CACHE_SUFFIX>>, <<5, TAG_LOCAL \o CACHE_SUFFIX>>}

MetricsUnchanged ==
    UNCHANGED <<now, clients, admitted, cache, cacheHist, messages, stream, parked, threads>>

\* record_request for the next request of the earlier run
RecordEarlier ==
    /\ requests = 0
    /\ metrics.total_requests < LATENCY_MAXLEN
    /\ LET i == metrics.total_requests + 1
       IN  /\ metrics' = Metrics_RecordRequest(metrics, EarlierLatency(i), EarlierSource(i))
           /\ ret' = [op |-> "record_request", latency_ms |-> EarlierLatency(i),
                      source |-> EarlierSource(i)]
    /\ UNCHANGED requests
    /\ MetricsUnchanged

RecordRequest(latency_ms, source) ==
    /\ requests < MaxSamples
    /\ metrics.total_requests - requests \in SampleCounts
    /\ metrics' = Metrics_RecordRequest(metrics, latency_ms, source)
    /\ requests' = requests + 1
    /\ ret' = [op |-> "record_request", latency_ms |-> latency_ms, source |-> source]
    /\ MetricsUnchanged

GetMetrics ==
    /\ metrics.total_requests - requests \in SampleCounts
    /\ ret' = [op |-> "get_metrics", result |-> Metrics_GetMetrics(metrics)]
    /\ UNCHANGED <<metrics, requests>>
    /\ MetricsUnchanged

RecordRateLimit ==
    /\ metrics.rate_limited_requests < MaxSamples
    /\ metrics.total_requests - requests \in SampleCounts
    /\ metrics' = Metrics_RecordRateLimit(metrics)
    /\ ret' = [op |-> "record_rate_limit"]
    /\ UNCHANGED requests
    /\ MetricsUnchanged

NextMetrics ==
    \/ RecordEarlier
    \/ \E sample \in Samples : RecordRequest(sample[1], sample[2])
    \/ RecordRateLimit
    \/ GetMetrics

SpecMetrics == Init /\ [][NextMetrics]_vars

\* v stands at 0-based position index of the samples in ascending order
AtSortedIndex(samples, index, v) ==
    /\ v \in Range(samples)
    /\ Cardinality({i \in DOMAIN samples : samples[i] < v}) <= index
    /\ Cardinality({i \in DOMAIN samples : samples[i] <= v}) > index

MetricsRead == ret.op = "get_metrics"

\* C23 as stated: the median of a non-empty buffer is the middle element
\* for an odd count and the lower-middle element for an even count.
C23_AsClaimed ==
    (MetricsRead /\ metrics.latencies # <<>>) =>
        LET count == Len(metrics.latencies)
        IN  AtSortedIndex(metrics.latencies,
                          IF count % 2 = 1 THEN (count - 1) \div 2
                          ELSE count \div 2 - 1,
                          ret.result.latency_median_ms)

\* C23: the reported median of a non-empty buffer is the middle element of
\* the ascending samples for an odd count and the upper-middle element,
\* the one at position count / 2 counted from 0, for an even count.
C23_UpperMiddle ==
    (MetricsRead /\ metrics.latencies # <<>>) =>
        LET count == Len(metrics.latencies)
        IN  AtSortedIndex(metrics.latencies,
                          IF count % 2 = 1 THEN (count - 1) \div 2
                          ELSE count \div 2,
                          ret.result.latency_median_ms)

\* the metrics were read with the four samples 40, 20, 50, 30 buffered and
\* the median reported is 40, the upper of the two middle samples
C23_Witness ==
    /\ MetricsRead
    /\ metrics.latencies = <<40, 20, 50, 30>>
    /\ ret.result.latency_median_ms = 40

\* C24: for a non-empty buffer the reported p95 is the element at index
\* min(floor(count * 95 / 100), count - 1) of the ascending samples; for
\* the samples 10, 20, 30, 40, 50 the median is 30 and the p95 is 50; for
\* an empty buffer both are 0.
C24_P95 ==
    MetricsRead =>
        LET samples == metrics.latencies
            count == Len(samples)
            index == (count * 95) \div 100
        IN  /\ samples = <<>> =>
                /\ ret.result.latency_median_ms = 0
                /\ ret.result.latency_p95_ms = 0
            /\ samples # <<>> =>
                AtSortedIndex(samples,
                              IF index <= count - 1 THEN index ELSE count - 1,
                              ret.result.latency_p95_ms)
            /\ (count = 5 /\ Range(samples) = {10, 20, 30, 40, 50}) =>
                /\ ret.result.latency_median_ms = 30
                /\ ret.result.latency_p95_ms = 50

\* the metrics were read over 21 samples whose largest is 240, and the p95
\* reported is 200, the sample at index 19 and not the last one
C24_Witness ==
    /\ MetricsRead
    /\ Len(metrics.latencies) = 21
    /\ 240 \in Range(metrics.latencies)
    /\ ret.result.latency_p95_ms = 200

\* the tags get_llm_response returns on a cache hit: f"{provider}-cache"
CacheHitTags == {TAG_GEMINI \o CACHE_SUFFIX, TAG_LOCAL \o CACHE_SUFFIX}

SourceCounters == {"gemini_requests", "local_requests", "fallback_requests"}

\* this step is a record_request that raised counter by one and left the
\* other two source counters alone
OnlyIncremented(counter) ==
    /\ metrics'[counter] = metrics[counter] + 1
    /\ \A other \in SourceCounters \ {counter} : metrics'[other] = metrics[other]

RecordStep == metrics'.total_requests = metrics.total_requests + 1

PrefixCounter(source) ==
    IF StartsWith(source, TAG_GEMINI) THEN "gemini_requests"
    ELSE IF StartsWith(source, TAG_LOCAL) THEN "local_requests"
    ELSE "fallback_requests"

\* C25 as stated: each record_request raises exactly one source counter,
\* chosen by the prefix of the tag, and the fallback tag and the cache-hit
\* tags raise the fallback counter.
C25_AsClaimed ==
    [][RecordStep =>
        /\ OnlyIncremented(PrefixCounter(ret'.source))
        /\ ret'.source \in {TAG_FALLBACK} \cup CacheHitTags =>
              OnlyIncremented("fallback_requests")]_vars

\* C25: each record_request raises exactly one of the remote, local and
\* fallback counters: the remote one when the tag starts with the remote
\* prefix, the local one when it starts with the local prefix, the fallback
\* one otherwise. The fallback tag raises the fallback counter; a cache-hit
\* tag starts with its provider's prefix and raises that provider's counter.
C25_CountedByPrefix ==
    [][RecordStep =>
        /\ OnlyIncremented(PrefixCounter(ret'.source))
        /\ ret'.source = TAG_FALLBACK => OnlyIncremented("fallback_requests")
        /\ ret'.source = TAG_GEMINI \o CACHE_SUFFIX =>
              OnlyIncremented("gemini_requests")
        /\ ret'.source = TAG_LOCAL \o CACHE_SUFFIX =>
              OnlyIncremented("local_requests")]_vars

\* the first request recorded carries the tag of a remote cache hit and is
\* counted as a remote request, not as a fallback
C25_Witness ==
    /\ ret.op = "record_request"
    /\ ret.source = TAG_GEMINI \o CACHE_SUFFIX
    /\ metrics.total_requests = 1
    /\ metrics.gemini_requests = 1
    /\ metrics.fallback_requests = 0

\* the last count elements of samples, in their order
MostRecent(samples, count) ==
    SubSeq(samples, Len(samples) - count + 1, Len(samples))

\* C29: the latency buffer holds exactly the most recent
\* min(n, LATENCY_MAXLEN) samples of the n recorded so far, in arrival
\* order: each record_request appends its sample at the end and, when the
\* buffer was full, drops the oldest one; get_metrics leaves the buffer and
\* every counter unchanged.
C29_BufferKeepsRecent ==
    [][/\ Len(metrics'.latencies) = Min(metrics'.total_requests, LATENCY_MAXLEN)
       /\ requests' = 0 =>
            LET n == metrics'.total_requests
                held == Min(n, LATENCY_MAXLEN)
            IN  metrics'.latencies = [k \in 1..held |-> EarlierLatency(n - held + k)]
       /\ RecordStep =>
            LET arrived == Append(metrics.latencies, ret'.latency_ms)
            IN  metrics'.latencies =
                    MostRecent(arrived, Min(Len(arrived), LATENCY_MAXLEN))
       /\ ret'.op = "get_metrics" => metrics' = metrics]_vars

\* a request was recorded into a full buffer: the buffer still holds
\* LATENCY_MAXLEN samples, the oldest one is gone and the new one is last
C29_Witness ==
    /\ ret.op = "record_request"
    /\ requests = 1
    /\ metrics.total_requests = LATENCY_MAXLEN + 1
    /\ Len(metrics.latencies) = LATENCY_MAXLEN
    /\ metrics.latencies[1] = EarlierLatency(2)
    /\ metrics.latencies[LATENCY_MAXLEN] = ret.latency_ms

Counters ==
    {"total_requests", "gemini_requests", "local_requests", "fallback_requests",
     "rate_limited_requests"}

\* C36: total_requests is always the sum of the three source counters; no
\* step lowers a counter; record_rate_limit raises rate_limited_requests
\* by one and changes nothing else of the tracker, total_requests included.
C36_CountersConsistent ==
    [][/\ metrics'.total_requests = metrics'.gemini_requests
              + metrics'.local_requests + metrics'.fallback_requests
       /\ \A counter \in Counters : metrics'[counter] >= metrics[counter]
       /\ metrics'.rate_limited_requests # metrics.rate_limited_requests =>
              metrics' = [metrics EXCEPT !.rate_limited_requests = @ + 1]
       /\ ret'.op = "record_rate_limit" =>
              metrics'.total_requests = metrics.total_requests]_vars

\* a rate-limited request was recorded after five requests of three
\* sources and one request more: six are counted in total, one as limited
C36_Witness ==
    /\ ret.op = "record_rate_limit"
    /\ metrics.rate_limited_requests = 1
    /\ metrics.total_requests = 6
    /\ metrics.gemini_requests > 0
    /\ metrics.local_requests > 0
    /\ metrics.fallback_requests > 0

=============================================================================
